---- MODULE Spec2Model ----
(***************************************************************************)
(* systrument: the trace-line pipeline.                                    *)
(*                                                                         *)
(*   raw line -> parse_line -> queued_lines (reorder window)               *)
(*            -> Analyzer::analyze -> Event -> OtelOutput / PerfettoOutput *)
(*                                                                         *)
(* The module models the reorder window of src/src/main.rs, the process    *)
(* map of src/src/strace/analyzer.rs and the two sinks of src/src/otel.rs  *)
(* and src/src/perfetto.rs.                                                *)
(***************************************************************************)
EXTENDS Integers, Sequences, FiniteSets, TLC

(***************************************************************************)
(* Option<T>: None is the empty sequence, Some(x) the one-element one.     *)
(***************************************************************************)
None == <<>>
Some(x) == <<x>>
IsSome(o) == o # <<>>
Unwrap(o) == o[1]

(***************************************************************************)
(* Bounds of the model.                                                    *)
(***************************************************************************)
\* pids are 1..MaxPid
MaxPid == 2
\* timestamps are 1..MaxTime
MaxTime == 2
\* lines handed to the analyzer in the direct specification
MaxEvents == 3
\* rand::random() draws are 1..MaxUuid
MaxUuid == 2
\* lines read from the input in the window specification
MaxLines == 4
\* their timestamps are 1..MaxWindowTime
MaxWindowTime == 4
\* lines handed to the analyzer in the re-exec specification
MaxExecEvents == 5
\* records the tracer writes to its --output in the record specification
MaxPipeLines == 2
\* characters after the backslash in the string specification
MaxEscapeLen == 4
\* characters of an annotation, its closing `>` apart
MaxAnnotationLen == 7
\* characters of ARGS and of RESULT, spaces before the `=`, in the line
\* specification
MaxArgsLen == 3
MaxResultLen == 3
MaxSpaces == 2
\* lines the analyzer is given in the fork specification
MaxForkLines == 3
\* pids and lines of the owner specification
MaxOwnerPid == 3
MaxOwnerLines == 4
\* main.rs:14 sets WINDOW_SIZE to 100; the model keeps the code's
\* comparisons and scales the number down so that the window fills
WINDOW_SIZE == 2
MaxDrainTime == 3
MaxArrayItems == 4
MaxFieldLen == 5
MaxEmitterLines == 4
MaxExecLines == 3
MaxTrackEvents == 4

Pids == 1..MaxPid
Timestamps == 1..MaxTime
Uuids == 1..MaxUuid
\* jiff::Timestamp::now() of --relative-to-now
RelativeTo == {None, Some(10)}

(***************************************************************************)
(* Lines as parse_line returns them.  `parse_ok` is the outcome of the     *)
(* lazy value parse the analyzer forces (result(), args(), code()):        *)
(* FALSE is a StraceParseError.  `returned` is                             *)
(* result.returned.and_then(as_i32) of a fork-like call, `command` the     *)
(* path argument of an exec as a sequence of path segments, `dir` the      *)
(* directory argument of execveat, `code` is code.as_i32() of an exit      *)
(* line and `signal` the text after "killed by ".                          *)
(***************************************************************************)
ForkNames == {"fork", "vfork", "clone", "clone3"}

Line(pid, ts, event, name, ok, returned, dir, command, code, signal) ==
    [pid |-> pid, timestamp |-> ts, event |-> event, name |-> name,
     parse_ok |-> ok, returned |-> returned, dir |-> dir,
     command |-> command, code |-> code, signal |-> signal]

ForkLine(pid, ts, name, ok, returned) ==
    Line(pid, ts, "Syscall", name, ok, returned, None, None, None, "")
ExecveLine(pid, ts, ok, command) ==
    Line(pid, ts, "Syscall", "execve", ok, None, None, command, None, "")
ExecveatLine(pid, ts, ok, dir, command) ==
    Line(pid, ts, "Syscall", "execveat", ok, None, dir, command, None, "")
OtherSyscallLine(pid, ts) ==
    Line(pid, ts, "Syscall", "openat", TRUE, None, None, None, None, "")
SignalLine(pid, ts) ==
    Line(pid, ts, "Signal", "", TRUE, None, None, None, None, "SIGCHLD")
ExitedLine(pid, ts, ok, code) ==
    Line(pid, ts, "Exited", "", ok, None, None, None, code, "")
KilledByLine(pid, ts, signal) ==
    Line(pid, ts, "KilledBy", "", TRUE, None, None, None, None, signal)

Commands == {<<"bin", "a">>, <<"bin", "b">>}

LinesAt(pid, ts) ==
    {ForkLine(pid, ts, "clone", TRUE, Some(c)) : c \in Pids}
    \cup {ForkLine(pid, ts, "vfork", TRUE, None),
          ForkLine(pid, ts, "fork", FALSE, None)}
    \cup {ExecveLine(pid, ts, TRUE, Some(c)) : c \in Commands}
    \cup {ExecveLine(pid, ts, FALSE, None),
          ExecveatLine(pid, ts, TRUE, Some(<<"bin">>), Some(<<"b">>)),
          OtherSyscallLine(pid, ts),
          SignalLine(pid, ts),
          ExitedLine(pid, ts, TRUE, Some(0)),
          ExitedLine(pid, ts, TRUE, Some(1)),
          ExitedLine(pid, ts, TRUE, None),
          ExitedLine(pid, ts, FALSE, None),
          KilledByLine(pid, ts, "SIGTERM")}

Lines == UNION {LinesAt(pid, ts) : pid \in Pids, ts \in Timestamps}
\* The analyzer copies the timestamp into the event and reads it nowhere:
\* its own specification feeds it lines of one timestamp.
AnalyzerLines == UNION {LinesAt(pid, 1) : pid \in Pids}

(***************************************************************************)
(* Analyzer (src/src/strace/analyzer.rs).                                  *)
(***************************************************************************)
ProcessState(parent, owner, status) ==
    [parent_pid |-> parent, owner_pid |-> owner, status |-> status]

\* HashMap::insert(pid, state), which replaces an entry
InsertReplacing(procs, pid, state) ==
    [p \in DOMAIN procs \cup {pid} |-> IF p = pid THEN state ELSE procs[p]]

\* HashMap::entry(pid).or_insert_with(|| state)
OrInsertWith(procs, pid, state) ==
    IF pid \in DOMAIN procs
    THEN procs
    ELSE [p \in DOMAIN procs \cup {pid} |->
             IF p = pid THEN state ELSE procs[p]]

\* The loop of find_owner_pid.  The map does not change during the walk, so
\* a walk longer than the number of entries is on a cycle of parent links
\* and never ends: `diverges`.
RECURSIVE FindOwnerWalk(_, _, _)
FindOwnerWalk(procs, pid, fuel) ==
    IF pid \notin DOMAIN procs
    THEN [diverges |-> FALSE, owner |-> None]
    ELSE IF procs[pid].status = "Execed"
    THEN [diverges |-> FALSE, owner |-> Some(pid)]
    ELSE IF procs[pid].parent_pid = None
    THEN [diverges |-> FALSE, owner |-> None]
    ELSE IF fuel = 0
    THEN [diverges |-> TRUE, owner |-> None]
    ELSE FindOwnerWalk(procs, Unwrap(procs[pid].parent_pid), fuel - 1)

\* a walk that starts at the forker's parent instead of the forker
find_owner_pid_from_parent(procs, pid) ==
    IF pid \in DOMAIN procs /\ IsSome(procs[pid].parent_pid)
    THEN FindOwnerWalk(procs, Unwrap(procs[pid].parent_pid),
                       Cardinality(DOMAIN procs))
    ELSE [diverges |-> FALSE, owner |-> None]

\* a walk that halts, without owner, at the first Stopped entry
RECURSIVE FindOwnerWalkToStopped(_, _, _)
FindOwnerWalkToStopped(procs, pid, fuel) ==
    IF pid \notin DOMAIN procs
    THEN [diverges |-> FALSE, owner |-> None]
    ELSE IF procs[pid].status = "Execed"
    THEN [diverges |-> FALSE, owner |-> Some(pid)]
    ELSE IF procs[pid].status = "Stopped" \/ procs[pid].parent_pid = None
    THEN [diverges |-> FALSE, owner |-> None]
    ELSE IF fuel = 0
    THEN [diverges |-> TRUE, owner |-> None]
    ELSE FindOwnerWalkToStopped(procs, Unwrap(procs[pid].parent_pid),
                                fuel - 1)

find_owner_pid_halts_at_stopped(procs, pid) ==
    FindOwnerWalkToStopped(procs, pid, Cardinality(DOMAIN procs))

find_owner_pid(procs, pid) ==
    FindOwnerWalk(procs, pid, Cardinality(DOMAIN procs))

\* The result of one handler: the new map and the EventKind, or `hang` when
\* the handler never returns.
Handled(procs, kind) == [hang |-> FALSE, processes |-> procs, kind |-> kind]
Hangs(procs) == [hang |-> TRUE, processes |-> procs, kind |-> [tag |-> "Log"]]

\* a fork that records the child's own pid as its parent
handle_fork_wrong_parent(procs, line, child_pid) ==
    LET walk == find_owner_pid(procs, line.pid)
        procs2 == OrInsertWith(procs, child_pid,
                      ProcessState(Some(child_pid), walk.owner, "Forked"))
    IN  IF walk.diverges
        THEN [hang |-> TRUE, processes |-> procs, kind |-> [tag |-> "Log"]]
        ELSE [hang |-> FALSE, processes |-> procs2,
              kind |-> [tag |-> "ForkProcess", child_pid |-> child_pid,
                        child_owner_pid |-> procs2[child_pid].owner_pid]]

handle_fork(procs, line, child_pid) ==
    LET walk == find_owner_pid(procs, line.pid)
        procs2 == OrInsertWith(procs, child_pid,
                      ProcessState(Some(line.pid), walk.owner, "Forked"))
    IN  IF walk.diverges
        THEN Hangs(procs)
        ELSE Handled(procs2,
                 [tag |-> "ForkProcess", child_pid |-> child_pid,
                  child_owner_pid |-> procs2[child_pid].owner_pid])

\* execveat: (dir, command) -> dir + "/" + command when command is not empty
ExecCommand(line) ==
    IF line.name = "execveat"
    THEN IF IsSome(line.dir) /\ IsSome(line.command)
         THEN Some(Unwrap(line.dir) \o Unwrap(line.command))
         ELSE IF IsSome(line.dir) THEN line.dir ELSE line.command
    ELSE line.command

\* an exec that files a pid without entry under itself as parent
handle_exec_own_parent(procs, line) ==
    LET procs2 == OrInsertWith(procs, line.pid,
                      ProcessState(Some(line.pid), None, "Forked"))
    IN  [hang |-> FALSE,
         processes |-> [procs2 EXCEPT ![line.pid].status = "Execed"],
         kind |-> [tag |-> "ExecProcess", command |-> ExecCommand(line),
                   re_exec |-> procs2[line.pid].status = "Execed"]]

\* an exec that takes every known pid, Stopped ones too, for a re-exec
handle_exec_known_is_re_exec(procs, line) ==
    LET procs2 == OrInsertWith(procs, line.pid,
                      ProcessState(None, None, "Forked"))
    IN  [hang |-> FALSE,
         processes |-> [procs2 EXCEPT ![line.pid].status = "Execed"],
         kind |-> [tag |-> "ExecProcess", command |-> ExecCommand(line),
                   re_exec |-> procs2[line.pid].status # "Forked"]]

\* an exec that takes a call that returned a negative value for a failed
\* one and reports it as a log line
handle_exec_if_succeeded(procs, line) ==
    IF IsSome(line.returned) /\ Unwrap(line.returned) < 0
    THEN Handled(procs, [tag |-> "Log"])
    ELSE LET procs2 == OrInsertWith(procs, line.pid,
                           ProcessState(None, None, "Forked"))
         IN  Handled([procs2 EXCEPT ![line.pid].status = "Execed"],
                 [tag |-> "ExecProcess", command |-> ExecCommand(line),
                  re_exec |-> procs2[line.pid].status = "Execed"])

handle_exec(procs, line) ==
    LET procs2 == OrInsertWith(procs, line.pid,
                      ProcessState(None, None, "Forked"))
        re_exec == procs2[line.pid].status = "Execed"
    IN  Handled([procs2 EXCEPT ![line.pid].status = "Execed"],
            [tag |-> "ExecProcess", command |-> ExecCommand(line),
             re_exec |-> re_exec])

\* KilledBy: signal_string.split(" ").next() is the signal name itself here
StoppedReason(line) ==
    IF line.event = "Exited"
    THEN [reason |-> "Exited", code |-> line.code, signal |-> None]
    ELSE [reason |-> "Killed", code |-> None, signal |-> Some(line.signal)]

handle_stopped(procs, line) ==
    LET procs2 == OrInsertWith(procs, line.pid,
                      ProcessState(None, None, "Stopped"))
        did_exec == procs2[line.pid].status = "Execed"
    IN  Handled([procs2 EXCEPT ![line.pid].status = "Stopped"],
            [tag |-> "StopProcess", stopped |-> StoppedReason(line),
             did_exec |-> did_exec])

\* The match of Analyzer::analyze that computes `kind`
AnalyzeKind(procs, line) ==
    IF line.event = "Syscall" /\ line.name \in ForkNames
    THEN IF IsSome(line.returned)
         THEN handle_fork(procs, line, Unwrap(line.returned))
         ELSE Handled(procs, [tag |-> "Log"])
    ELSE IF line.event = "Syscall" /\ line.name \in {"execve", "execveat"}
    THEN handle_exec(procs, line)
    ELSE IF line.event \in {"Exited", "KilledBy"}
    THEN handle_stopped(procs, line)
    ELSE Handled(procs, [tag |-> "Log"])

\* an analyze that takes the entry of line.pid before it forces the values
analyze_entry_before_error(procs, line) ==
    IF ~line.parse_ok
    THEN [result |-> "Err",
          processes |-> OrInsertWith(procs, line.pid,
                            ProcessState(None, None, "Forked")),
          event |-> None]
    ELSE LET h == AnalyzeKind(procs, line)
             known == line.pid \in DOMAIN h.processes
         IN  IF h.hang
             THEN [result |-> "Hang", processes |-> procs, event |-> None]
             ELSE [result |-> "Ok", processes |-> h.processes,
                   event |-> Some(
                       [kind |-> h.kind,
                        owner_pid |-> IF known
                                      THEN h.processes[line.pid].owner_pid
                                      ELSE None,
                        parent_pid |-> IF known
                                       THEN h.processes[line.pid].parent_pid
                                       ELSE None,
                        pid |-> line.pid,
                        timestamp |-> line.timestamp])]

\* analyze: Err (`?` on result(), args(), code()) leaves the map alone;
\* Ok carries the entry of line.pid after the update.  Event::strace, the
\* line itself, is not copied into the model's event: the sinks only print
\* its text into log bodies.
analyze(procs, line) ==
    IF ~line.parse_ok
    THEN [result |-> "Err", processes |-> procs, event |-> None]
    ELSE LET h == AnalyzeKind(procs, line)
             known == line.pid \in DOMAIN h.processes
         IN  IF h.hang
             THEN [result |-> "Hang", processes |-> procs, event |-> None]
             ELSE [result |-> "Ok", processes |-> h.processes,
                   event |-> Some(
                       [kind |-> h.kind,
                        owner_pid |-> IF known
                                      THEN h.processes[line.pid].owner_pid
                                      ELSE None,
                        parent_pid |-> IF known
                                       THEN h.processes[line.pid].parent_pid
                                       ELSE None,
                        pid |-> line.pid,
                        timestamp |-> line.timestamp])]

(***************************************************************************)
(* Remote-span sink (src/src/otel.rs).  The sink is a record:              *)
(*   relative_to, logger        the options it was built with              *)
(*   root_span                  OnceCell: None or Some([start, end])       *)
(*   process_spans              pid -> index into spans (the live spans)   *)
(*   first/last_event_timestamp                                            *)
(*   spans                      every span the tracer was asked to start   *)
(*   log                        the log record emitted by the last call    *)
(* A span context is None for the root span and Some(i) for spans[i].      *)
(***************************************************************************)
OtelNew(logger, relative_to) ==
    [relative_to |-> relative_to, logger |-> logger, root_span |-> None,
     process_spans |-> <<>>, first_event_timestamp |-> None,
     last_event_timestamp |-> None, spans |-> <<>>, log |-> None,
     dropped |-> FALSE]

\* an adjustment that measures from the last event instead of the first
adjust_timestamp_from_last(o, event_timestamp) ==
    IF o.relative_to = None
    THEN event_timestamp
    ELSE IF o.last_event_timestamp = None
    THEN event_timestamp
    ELSE Unwrap(o.relative_to)
             + (event_timestamp - Unwrap(o.last_event_timestamp))

adjust_timestamp(o, event_timestamp) ==
    IF o.relative_to = None
    THEN event_timestamp
    ELSE IF o.first_event_timestamp = None
    THEN event_timestamp
    ELSE Unwrap(o.relative_to)
             + (event_timestamp - Unwrap(o.first_event_timestamp))

\* a root_span() that starts the span at the event that asks for it
root_span_at_event(o, event_timestamp) ==
    LET first == IF IsSome(o.first_event_timestamp)
                 THEN o.first_event_timestamp
                 ELSE Some(event_timestamp)
        o1 == [o EXCEPT !.first_event_timestamp = first]
    IN  IF IsSome(o1.root_span)
        THEN o1
        ELSE [o1 EXCEPT !.root_span =
                 Some([start |-> adjust_timestamp(o1, event_timestamp),
                       end |-> None])]

\* root_span(): sets first_event_timestamp if unset, then get_or_init
root_span(o, event_timestamp) ==
    LET first == IF IsSome(o.first_event_timestamp)
                 THEN o.first_event_timestamp
                 ELSE Some(event_timestamp)
        o1 == [o EXCEPT !.first_event_timestamp = first]
    IN  IF IsSome(o1.root_span)
        THEN o1
        ELSE [o1 EXCEPT !.root_span =
                 Some([start |-> adjust_timestamp(o1, Unwrap(first)),
                       end |-> None])]

\* ProcessExec::command_name: the text after the last "/"
command_name(command) ==
    IF IsSome(command) /\ Len(Unwrap(command)) > 0
    THEN Some(Unwrap(command)[Len(Unwrap(command))])
    ELSE None

SpanName(event) ==
    LET name == command_name(event.kind.command)
    IN  IF IsSome(name) THEN <<Unwrap(name)>> ELSE <<"process", event.pid>>

MapInsert(m, k, v) == [x \in DOMAIN m \cup {k} |-> IF x = k THEN v ELSE m[x]]
MapRemove(m, k) == [x \in DOMAIN m \ {k} |-> m[x]]

\* an Exec arm that tags the previous span of the pid and leaves it open
OtelExecLeavesPreviousOpen(o, event, adjusted) ==
    LET has_owner_span == IsSome(event.owner_pid)
                          /\ Unwrap(event.owner_pid) \in DOMAIN o.process_spans
        o1 == IF has_owner_span THEN o ELSE root_span(o, event.timestamp)
        parent == IF has_owner_span
                  THEN Some(o.process_spans[Unwrap(event.owner_pid)])
                  ELSE None
        span == [name |-> SpanName(event), pid |-> event.pid,
                 parent |-> parent, start |-> adjusted, end |-> None,
                 re_exec |-> FALSE, exit_code |-> None, exit_ok |-> None,
                 exit_signal |-> None]
        id == Len(o1.spans) + 1
        had_prev == event.pid \in DOMAIN o1.process_spans
        spans1 == Append(o1.spans, span)
        spans2 == IF had_prev
                  THEN [spans1 EXCEPT
                           ![o1.process_spans[event.pid]].re_exec = TRUE]
                  ELSE spans1
    IN  [o1 EXCEPT !.spans = spans2,
                   !.process_spans = MapInsert(o1.process_spans, event.pid, id)]

\* an Exec arm that looks up the span of parent_pid instead of owner_pid
OtelExecUnderParentPid(o, event, adjusted) ==
    LET has_parent_span == IsSome(event.parent_pid)
                           /\ Unwrap(event.parent_pid) \in DOMAIN o.process_spans
        o1 == IF has_parent_span THEN o ELSE root_span(o, event.timestamp)
        parent == IF has_parent_span
                  THEN Some(o.process_spans[Unwrap(event.parent_pid)])
                  ELSE None
        span == [name |-> SpanName(event), pid |-> event.pid,
                 parent |-> parent, start |-> adjusted, end |-> None,
                 re_exec |-> FALSE, exit_code |-> None, exit_ok |-> None,
                 exit_signal |-> None]
        id == Len(o1.spans) + 1
        had_prev == event.pid \in DOMAIN o1.process_spans
        spans1 == Append(o1.spans, span)
        spans2 == IF had_prev
                  THEN [spans1 EXCEPT
                           ![o1.process_spans[event.pid]].re_exec = TRUE,
                           ![o1.process_spans[event.pid]].end = Some(adjusted)]
                  ELSE spans1
    IN  [o1 EXCEPT !.spans = spans2,
                   !.process_spans = MapInsert(o1.process_spans, event.pid, id)]

\* an Exec arm that starts the span under the pid's previous span, if any
OtelExecUnderOwnSpan(o, event, adjusted) ==
    LET had_prev == event.pid \in DOMAIN o.process_spans
        has_owner_span == IsSome(event.owner_pid)
                          /\ Unwrap(event.owner_pid) \in DOMAIN o.process_spans
        o1 == IF had_prev \/ has_owner_span THEN o
              ELSE root_span(o, event.timestamp)
        parent == IF had_prev THEN Some(o.process_spans[event.pid])
                  ELSE IF has_owner_span
                  THEN Some(o.process_spans[Unwrap(event.owner_pid)])
                  ELSE None
        span == [name |-> SpanName(event), pid |-> event.pid,
                 parent |-> parent, start |-> adjusted, end |-> None,
                 re_exec |-> FALSE, exit_code |-> None, exit_ok |-> None,
                 exit_signal |-> None]
        id == Len(o1.spans) + 1
        spans1 == Append(o1.spans, span)
        spans2 == IF had_prev
                  THEN [spans1 EXCEPT
                           ![o1.process_spans[event.pid]].re_exec = TRUE,
                           ![o1.process_spans[event.pid]].end = Some(adjusted)]
                  ELSE spans1
    IN  [o1 EXCEPT !.spans = spans2,
                   !.process_spans = MapInsert(o1.process_spans, event.pid, id)]

\* The ExecProcess arm of output_event
OtelExec(o, event, adjusted) ==
    LET has_owner_span == IsSome(event.owner_pid)
                          /\ Unwrap(event.owner_pid) \in DOMAIN o.process_spans
        o1 == IF has_owner_span THEN o ELSE root_span(o, event.timestamp)
        parent == IF has_owner_span
                  THEN Some(o.process_spans[Unwrap(event.owner_pid)])
                  ELSE None
        span == [name |-> SpanName(event), pid |-> event.pid,
                 parent |-> parent, start |-> adjusted, end |-> None,
                 re_exec |-> FALSE, exit_code |-> None, exit_ok |-> None,
                 exit_signal |-> None]
        id == Len(o1.spans) + 1
        had_prev == event.pid \in DOMAIN o1.process_spans
        spans1 == Append(o1.spans, span)
        spans2 == IF had_prev
                  THEN [spans1 EXCEPT
                           ![o1.process_spans[event.pid]].re_exec = TRUE,
                           ![o1.process_spans[event.pid]].end = Some(adjusted)]
                  ELSE spans1
    IN  [o1 EXCEPT !.spans = spans2,
                   !.process_spans = MapInsert(o1.process_spans, event.pid, id)]

\* a Stop arm that takes every exit for a success
OtelStopExitAlwaysOk(o, event, adjusted) ==
    IF event.pid \notin DOMAIN o.process_spans
    THEN o
    ELSE LET id == o.process_spans[event.pid]
             stopped == event.kind.stopped
             ended == [o.spans[id] EXCEPT !.end = Some(adjusted)]
             span == IF stopped.reason = "Exited"
                     THEN IF IsSome(stopped.code)
                          THEN [ended EXCEPT !.exit_code = stopped.code,
                                             !.exit_ok = Some(TRUE)]
                          ELSE ended
                     ELSE [ended EXCEPT !.exit_ok = Some(FALSE),
                                        !.exit_signal = stopped.signal]
         IN  [o EXCEPT !.spans[id] = span,
                       !.process_spans = MapRemove(o.process_spans, event.pid)]

\* a Stop arm that ends the span and leaves it in the map
OtelStopKeepsEntry(o, event, adjusted) ==
    IF event.pid \notin DOMAIN o.process_spans
    THEN o
    ELSE LET id == o.process_spans[event.pid]
         IN  [o EXCEPT !.spans[id].end = Some(adjusted)]

\* The StopProcess arm of output_event
OtelStop(o, event, adjusted) ==
    IF event.pid \notin DOMAIN o.process_spans
    THEN o
    ELSE LET id == o.process_spans[event.pid]
             stopped == event.kind.stopped
             ended == [o.spans[id] EXCEPT !.end = Some(adjusted)]
             span == IF stopped.reason = "Exited"
                     THEN IF IsSome(stopped.code)
                          THEN [ended EXCEPT
                                   !.exit_code = stopped.code,
                                   !.exit_ok = Some(Unwrap(stopped.code) = 0)]
                          ELSE ended
                     ELSE [ended EXCEPT !.exit_ok = Some(FALSE),
                                        !.exit_signal = stopped.signal]
         IN  [o EXCEPT !.spans[id] = span,
                       !.process_spans = MapRemove(o.process_spans, event.pid)]

\* a log block that prefers the owner's span to the pid's own
OtelLogOwnerFirst(o, event, adjusted) ==
    IF ~o.logger
    THEN [o EXCEPT !.log = None]
    ELSE LET own == event.pid \in DOMAIN o.process_spans
             owner == IsSome(event.owner_pid)
                      /\ Unwrap(event.owner_pid) \in DOMAIN o.process_spans
             o1 == IF own \/ owner THEN o ELSE root_span(o, event.timestamp)
             context == IF owner
                        THEN Some(o.process_spans[Unwrap(event.owner_pid)])
                        ELSE IF own THEN Some(o.process_spans[event.pid])
                        ELSE None
         IN  [o1 EXCEPT !.log = Some([timestamp |-> adjusted,
                                      context |-> context,
                                      pid |-> event.pid,
                                      parent_pid |-> event.parent_pid,
                                      owner_pid |-> event.owner_pid])]

\* The `if self.logger.is_some()` block of output_event
OtelLog(o, event, adjusted) ==
    IF ~o.logger
    THEN [o EXCEPT !.log = None]
    ELSE LET own == event.pid \in DOMAIN o.process_spans
             owner == IsSome(event.owner_pid)
                      /\ Unwrap(event.owner_pid) \in DOMAIN o.process_spans
             o1 == IF own \/ owner THEN o ELSE root_span(o, event.timestamp)
             context == IF own THEN Some(o.process_spans[event.pid])
                        ELSE IF owner
                        THEN Some(o.process_spans[Unwrap(event.owner_pid)])
                        ELSE None
         IN  [o1 EXCEPT !.log = Some([timestamp |-> adjusted,
                                      context |-> context,
                                      pid |-> event.pid,
                                      parent_pid |-> event.parent_pid,
                                      owner_pid |-> event.owner_pid])]

OtelOutputEvent(o, event) ==
    LET o1 == [o EXCEPT
                  !.first_event_timestamp =
                      IF IsSome(o.first_event_timestamp)
                      THEN o.first_event_timestamp
                      ELSE Some(event.timestamp),
                  !.last_event_timestamp = Some(event.timestamp)]
        adjusted == adjust_timestamp(o1, event.timestamp)
        o2 == IF event.kind.tag = "ExecProcess"
              THEN OtelExec(o1, event, adjusted)
              ELSE IF event.kind.tag = "StopProcess"
              THEN OtelStop(o1, event, adjusted)
              ELSE o1
    IN  OtelLog(o2, event, adjusted)

\* Drop for OtelOutput: the root span, if any, ends at the adjusted
\* timestamp of the last event.
OtelDrop(o) ==
    IF IsSome(o.root_span)
    THEN [o EXCEPT !.dropped = TRUE,
                   !.root_span =
                       Some([Unwrap(o.root_span) EXCEPT !.end =
                           IF IsSome(o.last_event_timestamp)
                           THEN Some(adjust_timestamp(o,
                                    Unwrap(o.last_event_timestamp)))
                           ELSE None])]
    ELSE [o EXCEPT !.dropped = TRUE]

(***************************************************************************)
(* Flame-chart sink (src/src/perfetto.rs).  The sink is a record:          *)
(*   logs                 options.logs                                     *)
(*   root_track_uuid      Some(uuid) iff logs                              *)
(*   track_uuids_by_pid   pid -> track uuid                                *)
(*   log_body_iid         the next interned log body id                    *)
(*   packets              the pending packet list                          *)
(*   written              the packets the last call wrote to the writer    *)
(* rand::random() is an arbitrary value: the caller of these operators     *)
(* picks each draw from Uuids.  The trusted packet sequence id is the same *)
(* in every packet and is left out of the packet records.                  *)
(***************************************************************************)
Packet(type, uuid, parent_uuid, timestamp, iid, name) ==
    [type |-> type, uuid |-> uuid, parent_uuid |-> parent_uuid,
     timestamp |-> timestamp, iid |-> iid, name |-> name]

PerfettoNew(logs, random_root) ==
    [logs |-> logs,
     root_track_uuid |-> IF logs THEN Some(random_root) ELSE None,
     track_uuids_by_pid |-> <<>>,
     log_body_iid |-> 1,
     packets |-> IF logs
                 THEN <<Packet("TrackDescriptor", Some(random_root), None,
                               None, None, Some("Root"))>>
                 ELSE <<>>,
     written |-> <<>>]

\* a log packet that takes the interned body id after the increment
LogPacketAfterIncrement(p, timestamp) ==
    IF p.logs
    THEN <<Packet("Instant", p.root_track_uuid, None, Some(timestamp),
                  Some(p.log_body_iid + 1), Some("Log"))>>
    ELSE <<>>

\* The `log_packet` of output_event: Some(packet) iff options.logs
LogPacket(p, timestamp) ==
    IF p.logs
    THEN <<Packet("Instant", p.root_track_uuid, None, Some(timestamp),
                  Some(p.log_body_iid), Some("Log"))>>
    ELSE <<>>

SliceEnd(track_uuid, timestamp) ==
    Packet("SliceEnd", Some(track_uuid), None, Some(timestamp), None, None)

\* an Exec arm that ends the previous slice after it began the new one
PerfettoExecEndsAfterBegin(p, event, track_uuid, log_packet, random2) ==
    LET re_exec == event.kind.re_exec
        uuid2 == IF re_exec THEN random2 ELSE track_uuid
        ended == IF re_exec
                 THEN <<SliceEnd(track_uuid, event.timestamp)>>
                 ELSE <<>>
        tracks == IF re_exec
                  THEN MapInsert(p.track_uuids_by_pid, event.pid, uuid2)
                  ELSE p.track_uuids_by_pid
    IN  [p EXCEPT
            !.track_uuids_by_pid = tracks,
            !.packets = p.packets \o
                <<Packet("TrackDescriptor", Some(uuid2), p.root_track_uuid,
                         Some(event.timestamp), None, Some("Processes")),
                  Packet("SliceBegin", Some(uuid2), None,
                         Some(event.timestamp), None,
                         command_name(event.kind.command))>>
                \o ended \o log_packet]

\* The ExecProcess arm of output_event; random2 is the draw of the re_exec
\* branch.  p already holds the entry of the pid and the bumped iid.
PerfettoExec(p, event, track_uuid, log_packet, random2) ==
    LET re_exec == event.kind.re_exec
        uuid2 == IF re_exec THEN random2 ELSE track_uuid
        ended == IF re_exec
                 THEN <<SliceEnd(track_uuid, event.timestamp)>>
                 ELSE <<>>
        tracks == IF re_exec
                  THEN MapInsert(p.track_uuids_by_pid, event.pid, uuid2)
                  ELSE p.track_uuids_by_pid
    IN  [p EXCEPT
            !.track_uuids_by_pid = tracks,
            !.packets = p.packets \o ended \o
                <<Packet("TrackDescriptor", Some(uuid2), p.root_track_uuid,
                         Some(event.timestamp), None, Some("Processes")),
                  Packet("SliceBegin", Some(uuid2), None,
                         Some(event.timestamp), None,
                         command_name(event.kind.command))>>
                \o log_packet]

\* a StopProcess arm that leaves the pid's track in the map
PerfettoStopKeepsTrack(p, event, track_uuid, log_packet) ==
    [p EXCEPT
        !.packets = p.packets \o log_packet
                        \o <<SliceEnd(track_uuid, event.timestamp)>>]

\* The StopProcess arm of output_event
PerfettoStop(p, event, track_uuid, log_packet) ==
    [p EXCEPT
        !.track_uuids_by_pid = MapRemove(p.track_uuids_by_pid, event.pid),
        !.packets = p.packets \o log_packet
                        \o <<SliceEnd(track_uuid, event.timestamp)>>]

PerfettoOutputEvent(p, event, random1, random2) ==
    LET track_uuid == IF event.pid \in DOMAIN p.track_uuids_by_pid
                      THEN p.track_uuids_by_pid[event.pid]
                      ELSE random1
        log_packet == LogPacket(p, event.timestamp)
        p1 == [p EXCEPT
                  !.track_uuids_by_pid =
                      MapInsert(p.track_uuids_by_pid, event.pid, track_uuid),
                  !.log_body_iid = IF p.logs THEN @ + 1 ELSE @]
        p2 == IF event.kind.tag = "ExecProcess"
              THEN PerfettoExec(p1, event, track_uuid, log_packet, random2)
              ELSE IF event.kind.tag = "StopProcess"
              THEN PerfettoStop(p1, event, track_uuid, log_packet)
              ELSE [p1 EXCEPT !.packets = p1.packets \o log_packet]
    IN  \* std::mem::take(&mut self.packets), write_to_writer
        [p2 EXCEPT !.written = p2.packets, !.packets = <<>>]

(***************************************************************************)
(* State.                                                                  *)
(***************************************************************************)
VARIABLES
    pc,            \* position of the pipeline: "emit" (direct), "read",
                   \* "evict", "drain", "shutdown", "done", "hung"
    sinks,         \* which sinks the command line built
    queued_lines,  \* BTreeMap: timestamp -> (line_index, line)
    line_index,    \* enumerate() of input.lines()
    processes,     \* Analyzer::processes
    otel,          \* OtelOutput
    perfetto,      \* PerfettoOutput
    last,          \* what the last loop body did: analyze's result and
                   \* the event handed to the sinks
    nevents,       \* lines handed to analyze so far
    arrived,       \* history: the lines that scanned, in arrival order
    emitted,       \* history: the lines handed to analyze, in order
    hist,          \* history of the events, per pid (see HistAfter)
    rec,           \* record(): the main thread, the tracer thread, the FIFO
    scan           \* the value parser: its input and what it returned

pipeline_vars == <<pc, sinks, queued_lines, line_index, processes, otel,
                   perfetto, last, nevents, arrived, emitted, hist>>

vars == <<pc, sinks, queued_lines, line_index, processes, otel, perfetto,
          last, nevents, arrived, emitted, hist, rec, scan>>

\* the subcommand is not `record`; no value is being parsed
NoRecord == [at |-> "none"]
NoScan == [at |-> "none"]

NoLast == [result |-> "None", event |-> None]

(***************************************************************************)
(* History of the events delivered so far, read by the properties only.    *)
(*   forked_by[c]    the latest ForkProcess returning c: its forker and    *)
(*                   whether the forker had had an ExecProcess event       *)
(*   created[c]      the ForkProcess that created c's entry: its forker    *)
(*                   and whether the forker was Execed, and whether it had *)
(*                   an entry, at that moment                              *)
(*   execed_once[p]  p has had an ExecProcess event                        *)
(*   lifecycle[p]    the latest of p's ExecProcess / StopProcess events    *)
(*   scenario        progress through end-to-end scenario 2                *)
(***************************************************************************)
HistInit ==
    [forked_by |-> [p \in Pids |-> None],
     created |-> [p \in Pids |-> None],
     execed_once |-> [p \in Pids |-> FALSE],
     lifecycle |-> [p \in Pids |-> "none"],
     scenario |-> "s0"]

\* Scenario 2: pid 1 clone returns 2; pid 1 execve /bin/a; pid 2 execve
\* /bin/b; pid 2 exits; pid 1 exits.
Scenario2Next(s, result, event) ==
    IF result # "Ok" THEN "off"
    ELSE LET e == Unwrap(event)
             k == e.kind
         IN  IF s = "s0" /\ k.tag = "ForkProcess" /\ e.pid = 1
                /\ k.child_pid = 2
             THEN "s1"
             ELSE IF s = "s1" /\ k.tag = "ExecProcess" /\ e.pid = 1
                     /\ k.command = Some(<<"bin", "a">>)
             THEN "s2"
             ELSE IF s = "s2" /\ k.tag = "ExecProcess" /\ e.pid = 2
                     /\ k.command = Some(<<"bin", "b">>)
             THEN "s3"
             ELSE IF s = "s3" /\ k.tag = "StopProcess" /\ e.pid = 2
             THEN "s4"
             ELSE IF s = "s4" /\ k.tag = "StopProcess" /\ e.pid = 1
             THEN "s5"
             ELSE "off"

HistAfter(h, procs, result, event, per_pid) ==
    LET s == Scenario2Next(h.scenario, result, event)
    IN  IF result # "Ok" \/ ~per_pid
        THEN [h EXCEPT !.scenario = s]
        ELSE LET e == Unwrap(event)
                 k == e.kind
             IN  IF k.tag = "ForkProcess"
                 THEN [h EXCEPT
                          !.scenario = s,
                          !.forked_by[k.child_pid] =
                              Some([by |-> e.pid,
                                    after_exec |-> h.execed_once[e.pid]]),
                          !.created[k.child_pid] =
                              IF k.child_pid \in DOMAIN procs
                              THEN @
                              ELSE Some([by |-> e.pid,
                                         by_execed |->
                                             /\ e.pid \in DOMAIN procs
                                             /\ procs[e.pid].status
                                                    = "Execed",
                                         by_known |->
                                             e.pid \in DOMAIN procs])]
                 ELSE IF k.tag = "ExecProcess"
                 THEN [h EXCEPT !.scenario = s,
                                !.execed_once[e.pid] = TRUE,
                                !.lifecycle[e.pid] = "exec"]
                 ELSE IF k.tag = "StopProcess"
                 THEN [h EXCEPT !.scenario = s,
                                !.lifecycle[e.pid] = "stop"]
                 ELSE [h EXCEPT !.scenario = s]

(***************************************************************************)
(* The loop body of main.rs (146-160, 168-182, 278-292, 300-314, 492-513,  *)
(* 521-542): analyze the line; on Err report and continue; on Ok hand the  *)
(* event to every sink that was built.  random1, random2 are the draws of  *)
(* rand::random() in PerfettoOutput::output_event.                         *)
(***************************************************************************)
Deliver(line, random1, random2, next_pc) ==
    \* the per-pid history is kept where the analyzer is observed alone
    LET r == analyze(processes, line)
        output == r.result = "Ok" /\ (sinks.otel \/ sinks.perfetto)
    IN  /\ processes' = r.processes
        /\ last' = [result |-> r.result, event |-> r.event]
        /\ hist' = HistAfter(hist, processes, r.result, r.event,
                             ~(sinks.otel \/ sinks.perfetto))
        /\ pc' = IF r.result = "Hang" THEN "hung" ELSE next_pc
        /\ nevents' = IF output THEN nevents + 1 ELSE nevents
        /\ otel' = IF r.result = "Ok" /\ sinks.otel
                   THEN OtelOutputEvent(otel, Unwrap(r.event))
                   ELSE otel
        /\ perfetto' = IF r.result = "Ok" /\ sinks.perfetto
                       THEN PerfettoOutputEvent(perfetto, Unwrap(r.event),
                                                random1, random2)
                       ELSE perfetto
        /\ UNCHANGED <<rec, scan>>

InitPipeline(config, start_pc) ==
    /\ pc = start_pc
    /\ sinks = [otel |-> config.otel, perfetto |-> config.perfetto]
    /\ queued_lines = <<>>
    /\ line_index = 0
    /\ processes = <<>>
    /\ otel = OtelNew(config.logs, config.relative_to)
    /\ \E u \in Uuids : perfetto = PerfettoNew(config.logs, u)
    /\ last = NoLast
    /\ nevents = 0
    /\ arrived = <<>>
    /\ emitted = <<>>
    /\ hist = HistInit

InitWith(config, start_pc) ==
    /\ InitPipeline(config, start_pc)
    /\ rec = NoRecord
    /\ scan = NoScan

(***************************************************************************)
(* Spec: the Analyzer alone (Analyzer::default(), then analyze() on any    *)
(* sequence of lines), as the library exports it.                          *)
(***************************************************************************)
NoSinks ==
    [otel |-> FALSE, perfetto |-> FALSE, logs |-> FALSE, relative_to |-> None]

Init == InitWith(NoSinks, "emit")

Analyze ==
    /\ pc = "emit"
    /\ \E line \in AnalyzerLines : Deliver(line, 1, 1, "emit")
    /\ UNCHANGED <<sinks, queued_lines, line_index, arrived, emitted>>

Next == Analyze

Spec == Init /\ [][Next]_vars

(***************************************************************************)
(* SpecOtel: strace2otel without the window: every line goes through       *)
(* analyze and OtelOutput::output_event, then the sink is dropped.         *)
(***************************************************************************)
InitOtel ==
    \E l \in BOOLEAN, b \in RelativeTo :
        InitWith([otel |-> TRUE, perfetto |-> FALSE, logs |-> l,
                  relative_to |-> b], "emit")

EmitOtel ==
    /\ pc = "emit"
    /\ nevents < MaxEvents
    /\ \E line \in Lines : Deliver(line, 1, 1, "emit")
    /\ UNCHANGED <<sinks, queued_lines, line_index, arrived, emitted>>

\* drop(otel_writer) (main.rs:318)
DropOtel ==
    /\ pc = "emit"
    /\ pc' = "done"
    /\ otel' = OtelDrop(otel)
    /\ UNCHANGED <<sinks, queued_lines, line_index, processes, perfetto,
                   last, nevents, arrived, emitted, hist, rec, scan>>

NextOtel == EmitOtel \/ DropOtel

SpecOtel == InitOtel /\ [][NextOtel]_vars

(***************************************************************************)
(* SpecReExec: strace2otel without the window and without --logs, on       *)
(* longer runs of the lines that open and close spans: clone, execve and   *)
(* exit lines of every pid.                                                *)
(***************************************************************************)
ReExecLines ==
    UNION {{ForkLine(pid, ts, "clone", TRUE, Some(c)) : c \in Pids}
           \cup {ExecveLine(pid, ts, TRUE, Some(<<"bin", "a">>)),
                 ExitedLine(pid, ts, TRUE, Some(0))}
              : pid \in Pids, ts \in Timestamps}

InitReExec ==
    \E b \in RelativeTo :
        InitWith([otel |-> TRUE, perfetto |-> FALSE, logs |-> FALSE,
                  relative_to |-> b], "emit")

EmitReExec ==
    /\ pc = "emit"
    /\ nevents < MaxExecEvents
    /\ \E line \in ReExecLines : Deliver(line, 1, 1, "emit")
    /\ UNCHANGED <<sinks, queued_lines, line_index, arrived, emitted>>

NextReExec == EmitReExec \/ DropOtel

SpecReExec == InitReExec /\ [][NextReExec]_vars

(***************************************************************************)
(* SpecPerfetto: strace2perfetto without the window: every line goes       *)
(* through analyze and PerfettoOutput::output_event.                       *)
(***************************************************************************)
\* The values rand::random() may return where output_event calls it: the
\* or_insert_with of a pid without entry, and the re_exec branch.
Draw1(line) ==
    IF line.pid \in DOMAIN perfetto.track_uuids_by_pid THEN {1} ELSE Uuids
Draw2(line) ==
    LET r == analyze(processes, line)
    IN  IF r.result = "Ok" /\ Unwrap(r.event).kind.tag = "ExecProcess"
           /\ Unwrap(r.event).kind.re_exec
        THEN Uuids
        ELSE {1}

InitPerfetto ==
    \E l \in BOOLEAN :
        InitWith([otel |-> FALSE, perfetto |-> TRUE, logs |-> l,
                  relative_to |-> None], "emit")

EmitPerfetto ==
    /\ pc = "emit"
    /\ nevents < MaxEvents
    /\ \E line \in Lines :
           \E random1 \in Draw1(line), random2 \in Draw2(line) :
               Deliver(line, random1, random2, "emit")
    /\ UNCHANGED <<sinks, queued_lines, line_index, arrived, emitted>>

NextPerfetto == EmitPerfetto

SpecPerfetto == InitPerfetto /\ [][NextPerfetto]_vars

(***************************************************************************)
(* SpecWindow: strace2perfetto (main.rs:93-186) with its reorder window.   *)
(*   read   the `for` over input.lines(): parse_line, insert               *)
(*   evict  the `while queued_lines.len() > WINDOW_SIZE` loop              *)
(*   drain  the `for` over queued_lines.into_values()                      *)
(* The input is any sequence of at most MaxLines lines of one pid.         *)
(***************************************************************************)
WindowTimestamps == 1..MaxWindowTime

WindowLines ==
    UNION {{OtherSyscallLine(1, ts), ForkLine(1, ts, "fork", FALSE, None)}
              : ts \in WindowTimestamps}

\* BTreeMap::insert: an entry with an equal key is replaced
BTreeInsert(map, key, value) ==
    [k \in DOMAIN map \cup {key} |-> IF k = key THEN value ELSE map[k]]

\* the entry with the greatest key, as last_entry would give
LastKey(map) == CHOOSE k \in DOMAIN map : \A j \in DOMAIN map : k >= j

\* BTreeMap::first_entry: the entry with the least key
FirstKey(map) == CHOOSE k \in DOMAIN map : \A j \in DOMAIN map : k <= j

BTreeRemove(map, key) == [k \in DOMAIN map \ {key} |-> map[k]]

\* the comparison off by one: a window of WINDOW_SIZE - 1 lines
WindowFullAtSize(map) == Cardinality(DOMAIN map) >= WINDOW_SIZE

\* queued_lines.len() > WINDOW_SIZE
WindowFull(map) == Cardinality(DOMAIN map) > WINDOW_SIZE

\* `ok`: whether analyze will accept the line
Stamp(entry) ==
    [line_index |-> entry.line_index, timestamp |-> entry.line.timestamp,
     ok |-> entry.line.parse_ok]

InitWindow ==
    InitWith([otel |-> FALSE, perfetto |-> TRUE, logs |-> FALSE,
              relative_to |-> None], "read")

\* A line that parse_line accepts: queued under its timestamp
ReadLineOf(lines) ==
    /\ pc = "read"
    /\ line_index < MaxLines
    /\ \E line \in lines :
           LET entry == [line_index |-> line_index, line |-> line]
               queued == BTreeInsert(queued_lines, line.timestamp, entry)
           IN  /\ queued_lines' = queued
               /\ arrived' = Append(arrived, Stamp(entry))
               /\ pc' = IF WindowFull(queued) THEN "evict" ELSE "read"
    /\ line_index' = line_index + 1
    /\ UNCHANGED <<sinks, processes, otel, perfetto, last, nevents, emitted,
                   hist, rec, scan>>

ReadLine == ReadLineOf(WindowLines)

\* A line that parse_line rejects: reported and skipped
ReadBadLine ==
    /\ pc = "read"
    /\ line_index < MaxLines
    /\ line_index' = line_index + 1
    /\ UNCHANGED <<pc, sinks, queued_lines, processes, otel, perfetto, last,
                   nevents, arrived, emitted, hist, rec, scan>>

\* One iteration of the while loop: the first entry leaves the queue and
\* goes through the loop body
Evict ==
    /\ pc = "evict"
    /\ LET key == FirstKey(queued_lines)
           entry == queued_lines[key]
           queued == BTreeRemove(queued_lines, key)
       IN  /\ queued_lines' = queued
           /\ emitted' = Append(emitted, Stamp(entry))
           /\ \E random1 \in Draw1(entry.line), random2 \in Draw2(entry.line) :
                  Deliver(entry.line, random1, random2,
                          IF WindowFull(queued) THEN "evict" ELSE "read")
    /\ UNCHANGED <<sinks, line_index, arrived>>

\* input.lines() is exhausted
EndOfInput ==
    /\ pc = "read"
    /\ pc' = "drain"
    /\ UNCHANGED <<sinks, queued_lines, line_index, processes, otel,
                   perfetto, last, nevents, arrived, emitted, hist, rec,
                   scan>>

\* One iteration of the loop over queued_lines.into_values()
Drain ==
    /\ pc = "drain"
    /\ DOMAIN queued_lines # {}
    /\ LET key == FirstKey(queued_lines)
           entry == queued_lines[key]
       IN  /\ queued_lines' = BTreeRemove(queued_lines, key)
           /\ emitted' = Append(emitted, Stamp(entry))
           /\ \E random1 \in Draw1(entry.line), random2 \in Draw2(entry.line) :
                  Deliver(entry.line, random1, random2, "drain")
    /\ UNCHANGED <<sinks, line_index, arrived>>

\* Ok(()) of strace_to_perfetto
Finish ==
    /\ pc = "drain"
    /\ DOMAIN queued_lines = {}
    /\ pc' = "done"
    /\ UNCHANGED <<sinks, queued_lines, line_index, processes, otel,
                   perfetto, last, nevents, arrived, emitted, hist, rec,
                   scan>>

NextWindow ==
    ReadLine \/ ReadBadLine \/ Evict \/ EndOfInput \/ Drain \/ Finish

SpecWindow == InitWindow /\ [][NextWindow]_vars

(***************************************************************************)
(* SpecDrain: the main thread of `record` from the loop over the lines of  *)
(* the pipe to its return (main.rs:462-563), with the sinks the command    *)
(* line asked for; strace_to_otel (270-330) is the same sequence with the  *)
(* remote-span sink alone and without the join.  After the drain:          *)
(*   drop      547  drop(otel_writer)                                      *)
(*   shutdown  550  shutdown of the trace and log providers                *)
(*   join      563  command_thread.join()                                  *)
(***************************************************************************)
DrainLines ==
    UNION {{ExecveLine(1, ts, TRUE, Some(<<"bin", "a">>)),
            OtherSyscallLine(1, ts),
            ForkLine(1, ts, "fork", FALSE, None)} : ts \in 1..MaxDrainTime}

InitDrain ==
    \E o \in BOOLEAN, f \in BOOLEAN, l \in BOOLEAN :
        /\ o \/ f
        /\ InitWith([otel |-> o, perfetto |-> f, logs |-> l,
                     relative_to |-> None], "read")

ReadPipedLine == ReadLineOf(DrainLines)

\* the loop over queued_lines.into_values() leaves nothing behind
DrainedAtOnce(map) == TRUE

\* queued_lines.into_values() is exhausted
Drained(map) == DOMAIN map = {}

\* main.rs:547 (326): drop(otel_writer); Drop for OtelOutput ends the root
\* span.  Without --otel the option is None and the drop does nothing.
DropWriter ==
    /\ pc = "drain"
    /\ Drained(queued_lines)
    /\ pc' = "shutdown"
    /\ otel' = IF sinks.otel THEN OtelDrop(otel) ELSE otel
    /\ UNCHANGED <<sinks, queued_lines, line_index, processes, perfetto,
                   last, nevents, arrived, emitted, hist, rec, scan>>

\* main.rs:550-561 (329-339): shutdown() of the providers; an error leaves
\* the function through `?`
ShutdownProviders ==
    /\ pc = "shutdown"
    /\ \E ok \in IF sinks.otel THEN BOOLEAN ELSE {TRUE} :
           pc' = IF ok THEN "join" ELSE "done"
    /\ UNCHANGED <<sinks, queued_lines, line_index, processes, otel,
                   perfetto, last, nevents, arrived, emitted, hist, rec,
                   scan>>

\* main.rs:563: command_thread.join()
JoinCommandThread ==
    /\ pc = "join"
    /\ pc' = "done"
    /\ UNCHANGED <<sinks, queued_lines, line_index, processes, otel,
                   perfetto, last, nevents, arrived, emitted, hist, rec,
                   scan>>

NextDrain ==
    \/ ReadPipedLine \/ ReadBadLine \/ Evict \/ EndOfInput \/ Drain
    \/ DropWriter \/ ShutdownProviders \/ JoinCommandThread

SpecDrain == InitDrain /\ [][NextDrain]_vars

(***************************************************************************)
(* SpecRecord: `record` (main.rs:335-573): the main thread, the thread     *)
(* that runs the tracer (command.status()), and the named pipe between     *)
(* them.  rec.at is the position of the main thread:                       *)
(*   "start"            351  choose the tracer's --output                  *)
(*   "perfetto_writer"  368  File::create of --output-perfetto             *)
(*   "otel_writer"      389  build the OTLP exporters                      *)
(*   "strace_writer"    431  File::create of --output-strace               *)
(*   "spawn"            447  std::thread::spawn                            *)
(*   "open"             450  File::open of the FIFO                        *)
(*   "lines"            462  the loop over strace_pipe.lines()             *)
(*   "shutdown"         547  drop the sink, shut the providers down        *)
(*   "join"             563  command_thread.join()                         *)
(*   "returned"              record is over: rec.exit says how             *)
(* rec.tracer is the tracer thread: "unspawned", "spawned" (inside         *)
(* command.status()), "start_failed" (status() returned Err: the tracer    *)
(* could not be started), "running" (the tracer process exists and is      *)
(* about to open its --output), "writing" (it has its --output open),      *)
(* "exited" (status() returned Ok; rec.success is ExitStatus::success()).  *)
(* The body of the loop over the lines is the one SpecWindow models; here  *)
(* a line is read, or one of the loop's unwrap/expect calls panics.        *)
(***************************************************************************)
RecordArgs ==
    [otel : BOOLEAN, output_perfetto : BOOLEAN, output_strace : BOOLEAN]

\* `args.otel || args.output_perfetto.is_some()`: the events come through
\* the named pipe (main.rs:352, 358)
PipeFed(args) == args.otel \/ args.output_perfetto

RecordNew(args) ==
    [at |-> "start", args |-> args, fifo |-> "absent",
     strace_pipe |-> FALSE, tracer |-> "unspawned", success |-> FALSE,
     written |-> 0, produced |-> 0, exit |-> "none"]

\* the drop that leaves the file in place
TempPipeDropKeepsFile(r) ==
    IF r.strace_pipe THEN [r EXCEPT !.strace_pipe = FALSE] ELSE r

\* Drop for TempPipe: remove_file(&self.path), its result ignored; nothing
\* to do when strace_pipe is None or has been dropped already
TempPipeDrop(r) ==
    IF r.strace_pipe
    THEN [r EXCEPT !.strace_pipe = FALSE, !.fifo = "removed"]
    ELSE r

\* record is left by `bail!`, by `?`, by a panic that unwinds, or by its
\* last expression: the locals still alive are dropped
Return(r, how) == [TempPipeDrop(r) EXCEPT !.at = "returned", !.exit = how]

InitRecord ==
    /\ InitPipeline(NoSinks, "record")
    /\ \E args \in RecordArgs : rec = RecordNew(args)
    /\ scan = NoScan

\* main.rs:351-363; create_pipe (576-585) fails or makes the FIFO
ChooseOutput ==
    /\ rec.at = "start"
    /\ IF ~PipeFed(rec.args)
       THEN rec' = IF rec.args.output_strace
                   THEN [rec EXCEPT !.at = "perfetto_writer"]
                   ELSE Return(rec, "err")
       ELSE \E created \in BOOLEAN :
                rec' = IF created
                       THEN [rec EXCEPT !.at = "perfetto_writer",
                                        !.fifo = "exists",
                                        !.strace_pipe = TRUE]
                       ELSE Return(rec, "err")
    /\ UNCHANGED <<pipeline_vars, scan>>

\* main.rs:368-385
CreatePerfettoWriter ==
    /\ rec.at = "perfetto_writer"
    /\ \E created \in IF rec.args.output_perfetto THEN BOOLEAN ELSE {TRUE} :
           rec' = IF created
                  THEN [rec EXCEPT !.at = "otel_writer"]
                  ELSE Return(rec, "err")
    /\ UNCHANGED <<pipeline_vars, scan>>

\* main.rs:387-430
BuildOtelWriter ==
    /\ rec.at = "otel_writer"
    /\ \E built \in IF rec.args.otel THEN BOOLEAN ELSE {TRUE} :
           rec' = IF built
                  THEN [rec EXCEPT !.at = "strace_writer"]
                  ELSE Return(rec, "err")
    /\ UNCHANGED <<pipeline_vars, scan>>

\* main.rs:431-445
CreateStraceWriter ==
    /\ rec.at = "strace_writer"
    /\ \E created \in IF rec.strace_pipe /\ rec.args.output_strace
                      THEN BOOLEAN ELSE {TRUE} :
           rec' = IF created
                  THEN [rec EXCEPT !.at = "spawn"]
                  ELSE Return(rec, "err")
    /\ UNCHANGED <<pipeline_vars, scan>>

\* main.rs:447-449: the thread is spawned; without a pipe the main thread
\* goes on to the shutdown
SpawnTracer ==
    /\ rec.at = "spawn"
    /\ rec' = [rec EXCEPT !.tracer = "spawned",
                          !.at = IF rec.strace_pipe THEN "open"
                                 ELSE "shutdown"]
    /\ UNCHANGED <<pipeline_vars, scan>>

\* main.rs:450: opening a FIFO for reading returns once a writer has it
\* open, and the tracer's open for writing returns once a reader has
OpenFifo ==
    /\ rec.at = "open"
    /\ rec.tracer = "running"
    /\ rec' = [rec EXCEPT !.at = "lines", !.tracer = "writing"]
    /\ UNCHANGED <<pipeline_vars, scan>>

\* main.rs:451-454: File::open returns an error
OpenFifoFails ==
    /\ rec.at = "open"
    /\ rec' = Return(rec, "err")
    /\ UNCHANGED <<pipeline_vars, scan>>

\* main.rs:462-515: one line of the pipe goes through the loop body
ReadPipeLine ==
    /\ rec.at = "lines"
    /\ rec.written > 0
    /\ rec' = [rec EXCEPT !.written = @ - 1]
    /\ UNCHANGED <<pipeline_vars, scan>>

\* main.rs:463, 467, 507, 512, 536, 541: an unwrap or expect panics
PipelinePanics ==
    /\ rec.at = "lines"
    /\ rec' = Return(rec, "panic")
    /\ UNCHANGED <<pipeline_vars, scan>>

\* main.rs:515-544: lines() ends when the pipe is empty and its writer has
\* closed it; the queue is drained and the block's TempPipe is dropped
EndOfPipe ==
    /\ rec.at = "lines"
    /\ rec.written = 0
    /\ rec.tracer = "exited"
    /\ rec' = [TempPipeDrop(rec) EXCEPT !.at = "shutdown"]
    /\ UNCHANGED <<pipeline_vars, scan>>

\* main.rs:547-561
ShutdownOtel ==
    /\ rec.at = "shutdown"
    /\ \E done \in IF rec.args.otel THEN BOOLEAN ELSE {TRUE} :
           rec' = IF done
                  THEN [rec EXCEPT !.at = "join"]
                  ELSE Return(rec, "err")
    /\ UNCHANGED <<pipeline_vars, scan>>

\* main.rs:563-572: join returns when the thread has finished
JoinTracer ==
    /\ rec.at = "join"
    /\ rec.tracer \in {"start_failed", "exited"}
    /\ rec' = IF rec.tracer = "start_failed" THEN Return(rec, "err")
              ELSE IF rec.success THEN Return(rec, "ok")
              ELSE Return(rec, "code")
    /\ UNCHANGED <<pipeline_vars, scan>>

\* command.status() returns Err: the tracer could not be started
TracerStartFails ==
    /\ rec.exit = "none"
    /\ rec.tracer = "spawned"
    /\ rec' = [rec EXCEPT !.tracer = "start_failed"]
    /\ UNCHANGED <<pipeline_vars, scan>>

\* command.status() has started the tracer and waits for it
TracerStarts ==
    /\ rec.exit = "none"
    /\ rec.tracer = "spawned"
    /\ rec' = [rec EXCEPT !.tracer = "running"]
    /\ UNCHANGED <<pipeline_vars, scan>>

\* --output is a regular file (main.rs:357): the tracer opens it alone
TracerOpensFile ==
    /\ rec.exit = "none"
    /\ rec.tracer = "running"
    /\ ~PipeFed(rec.args)
    /\ rec' = [rec EXCEPT !.tracer = "writing"]
    /\ UNCHANGED <<pipeline_vars, scan>>

\* the tracer writes one record to its --output
TracerWrites ==
    /\ rec.exit = "none"
    /\ rec.tracer = "writing"
    /\ rec.produced < MaxPipeLines
    /\ rec' = [rec EXCEPT !.written = @ + 1, !.produced = @ + 1]
    /\ UNCHANGED <<pipeline_vars, scan>>

\* the tracer process ends, with or without having opened its --output,
\* and command.status() returns its exit status
TracerExits ==
    /\ rec.exit = "none"
    /\ rec.tracer \in {"running", "writing"}
    /\ \E success \in BOOLEAN :
           rec' = [rec EXCEPT !.tracer = "exited", !.success = success]
    /\ UNCHANGED <<pipeline_vars, scan>>

\* the steps of the main thread that are not failures of its environment
MainThread ==
    \/ ChooseOutput \/ CreatePerfettoWriter \/ BuildOtelWriter
    \/ CreateStraceWriter \/ SpawnTracer \/ OpenFifo \/ ReadPipeLine
    \/ EndOfPipe \/ ShutdownOtel \/ JoinTracer

\* the tracer thread gets out of Command::spawn one way or the other
TracerThread == TracerStartFails \/ TracerStarts

NextRecord ==
    \/ ChooseOutput \/ CreatePerfettoWriter \/ BuildOtelWriter
    \/ CreateStraceWriter \/ SpawnTracer \/ OpenFifo \/ OpenFifoFails
    \/ ReadPipeLine \/ PipelinePanics \/ EndOfPipe \/ ShutdownOtel
    \/ JoinTracer \/ TracerStartFails \/ TracerStarts \/ TracerOpensFile
    \/ TracerWrites \/ TracerExits

\* Both threads are scheduled: a step of the main thread that stays
\* possible is taken, and so is the return of Command::spawn.
SpecRecord ==
    /\ InitRecord
    /\ [][NextRecord]_vars
    /\ WF_vars(MainThread)
    /\ WF_vars(TracerThread)

(***************************************************************************)
(* SpecString: the string arm of parse_value_basic (parser.rs:151-186)     *)
(* with parse_string_escape_sequence (594-646).  A text is a sequence of   *)
(* characters; the parsed string is a sequence of bytes.  The inputs are   *)
(* the texts `"\` body `"` and `"\` body `"...`, body being 1 to           *)
(* MaxEscapeLen characters of BodyChars.                                   *)
(***************************************************************************)
OctalDigits == {"0", "1", "2", "3", "4", "5", "6", "7"}

BodyChars == OctalDigits \cup {"8", "x", "F", "n", "q", "+", "\\"}

\* the characters of the annotated values
AnnotationChars == {"a", "<", ">", "-", "\\", "5"}

StringChars ==
    BodyChars \cup AnnotationChars
        \cup {"\"", ".", "(", ")", "d", "e", "l", "t"}

\* the byte of an ASCII character
ByteOf ==
    [c \in StringChars |->
        CASE c = "0" -> 48 [] c = "1" -> 49 [] c = "2" -> 50 [] c = "3" -> 51
          [] c = "4" -> 52 [] c = "5" -> 53 [] c = "6" -> 54 [] c = "7" -> 55
          [] c = "8" -> 56 [] c = "x" -> 120 [] c = "F" -> 70
          [] c = "n" -> 110 [] c = "q" -> 113 [] c = "+" -> 43
          [] c = "\\" -> 92 [] c = "\"" -> 34 [] c = "." -> 46
          [] c = "a" -> 97 [] c = "d" -> 100 [] c = "e" -> 101
          [] c = "l" -> 108 [] c = "t" -> 116 [] c = "<" -> 60
          [] c = ">" -> 62 [] c = "-" -> 45 [] c = "(" -> 40
          [] c = ")" -> 41]

\* as_bytes() of a text
Bytes(text) == [i \in 1..Len(text) |-> ByteOf[text[i]]]

\* char::to_digit(radix) on the characters of StringChars
ToDigit(c, radix) ==
    LET d == CASE c = "0" -> 0 [] c = "1" -> 1 [] c = "2" -> 2 [] c = "3" -> 3
               [] c = "4" -> 4 [] c = "5" -> 5 [] c = "6" -> 6 [] c = "7" -> 7
               [] c = "8" -> 8 [] c = "F" -> 15 [] c = "a" -> 10
               [] c = "d" -> 13 [] c = "e" -> 14 [] OTHER -> 36
    IN  IF d < radix THEN Some(d) ELSE None

RECURSIVE RadixValue(_, _, _)
RadixValue(digits, radix, acc) ==
    IF digits = <<>> THEN Some(acc)
    ELSE LET d == ToDigit(Head(digits), radix)
         IN  IF IsSome(d)
             THEN RadixValue(Tail(digits), radix, acc * radix + Unwrap(d))
             ELSE None

\* u8::MAX
U8_MAX == 255

\* u8::from_str_radix: an optional `+`, then digits of the radix; Err
\* (here None) on an empty text, a lone sign, a character that is no digit,
\* and a value above u8::MAX
u8_from_str_radix(src, radix) ==
    IF src = <<>> \/ src = <<"+">> THEN None
    ELSE LET digits == IF src[1] = "+" THEN Tail(src) ELSE src
             value == RadixValue(digits, radix, 0)
         IN  IF IsSome(value) /\ Unwrap(value) <= U8_MAX THEN value ELSE None

EscapeOk(byte, consumed, escape) ==
    [ok |-> TRUE, byte |-> byte,
     rest |-> SubSeq(escape, consumed + 1, Len(escape)), message |-> ""]

EscapeErr(message) ==
    [ok |-> FALSE, byte |-> 0, rest |-> <<>>, message |-> message]

\* the arm without the cap of three digits
OctalEscapeUncapped(escape) ==
    LET num_octal_bytes ==
            Cardinality({n \in 1..Len(escape) :
                            \A i \in 1..n : escape[i] \in OctalDigits})
        byte == u8_from_str_radix(SubSeq(escape, 1, num_octal_bytes), 8)
    IN  IF IsSome(byte)
        THEN EscapeOk(Unwrap(byte), num_octal_bytes, escape)
        ELSE EscapeErr("invalid octal escape in string")

\* the arm b'0'..=b'7' (625-638): the octal digits among the first three
\* bytes, as long as they go
OctalEscape(escape) ==
    LET first == IF Len(escape) < 3 THEN Len(escape) ELSE 3
        num_octal_bytes ==
            Cardinality({n \in 1..first :
                            \A i \in 1..n : escape[i] \in OctalDigits})
        byte == u8_from_str_radix(SubSeq(escape, 1, num_octal_bytes), 8)
    IN  IF IsSome(byte)
        THEN EscapeOk(Unwrap(byte), num_octal_bytes, escape)
        ELSE EscapeErr("invalid octal escape in string")

\* `escape` is the text after the backslash
parse_string_escape_sequence(escape) ==
    IF escape = <<>> THEN EscapeErr("unexpected end of string")
    ELSE LET escape_byte == escape[1]
         IN  CASE escape_byte = "\\" -> EscapeOk(92, 1, escape)
               [] escape_byte = "a" -> EscapeOk(7, 1, escape)
               [] escape_byte = "b" -> EscapeOk(8, 1, escape)
               [] escape_byte = "e" -> EscapeOk(27, 1, escape)
               [] escape_byte = "f" -> EscapeOk(12, 1, escape)
               [] escape_byte = "n" -> EscapeOk(10, 1, escape)
               [] escape_byte = "r" -> EscapeOk(13, 1, escape)
               [] escape_byte = "t" -> EscapeOk(9, 1, escape)
               [] escape_byte = "v" -> EscapeOk(11, 1, escape)
               [] escape_byte = "'" -> EscapeOk(39, 1, escape)
               [] escape_byte = "\"" -> EscapeOk(34, 1, escape)
               [] escape_byte = "?" -> EscapeOk(63, 1, escape)
               [] escape_byte = "x" ->
                      IF Len(escape) < 3
                      THEN EscapeErr("unexpected end of string")
                      ELSE LET byte ==
                                   u8_from_str_radix(SubSeq(escape, 2, 3), 16)
                           IN  IF IsSome(byte)
                               THEN EscapeOk(Unwrap(byte), 3, escape)
                               ELSE EscapeErr("invalid hex escape in string")
               [] escape_byte \in OctalDigits -> OctalEscape(escape)
               [] OTHER -> EscapeErr("invalid string escape")

\* string.find(&['"', '\\']): the index, from 0, of the first quote or
\* backslash
FindQuoteOrBackslash(text) ==
    LET found == {i \in 1..Len(text) : text[i] \in {"\"", "\\"}}
    IN  IF found = {} THEN None
        ELSE Some((CHOOSE i \in found : \A j \in found : i <= j) - 1)

ValueOk(tag, bytes, rest) ==
    [ok |-> TRUE, tag |-> tag, bytes |-> bytes, rest |-> rest,
     message |-> ""]

ValueErr(message) ==
    [ok |-> FALSE, tag |-> "", bytes |-> <<>>, rest |-> <<>>,
     message |-> message]

\* the `while let Ok(escape) = rest.strip_prefix("\\")` loop (159-176) and
\* what follows it (178-186)
RECURSIVE StringEscapes(_, _)
StringEscapes(string, rest) ==
    IF rest # <<>> /\ rest[1] = "\\"
    THEN LET e == parse_string_escape_sequence(Tail(rest))
             literal_string_end == FindQuoteOrBackslash(e.rest)
         IN  IF ~e.ok THEN ValueErr(e.message)
             ELSE IF ~IsSome(literal_string_end)
             THEN ValueErr("unexpected string end")
             ELSE LET end == Unwrap(literal_string_end)
                  IN  StringEscapes(
                          string \o <<e.byte>>
                              \o Bytes(SubSeq(e.rest, 1, end)),
                          SubSeq(e.rest, end + 1, Len(e.rest)))
    ELSE IF rest = <<>> \/ rest[1] # "\""
    THEN ValueErr("expected closing quote for string")
    ELSE LET after == Tail(rest)
         IN  IF Len(after) >= 3 /\ SubSeq(after, 1, 3) = <<".", ".", ".">>
             THEN ValueOk("TruncatedString", string,
                          SubSeq(after, 4, Len(after)))
             ELSE ValueOk("String", string, after)

\* is_basic_expression_char on the characters of StringChars
is_basic_expression_char(c) ==
    c \in OctalDigits
             \cup {"8", "x", "F", "n", "q", "a", "d", "e", "l", "t",
                   "+", "-", "."}

\* input.value.find(|c| !is_basic_expression_char(c))
\*     .unwrap_or(input.value.len())
EndBasicExpr(input) ==
    LET other == {i \in 1..Len(input) : ~is_basic_expression_char(input[i])}
    IN  IF other = {} THEN Len(input)
        ELSE (CHOOSE i \in other : \A j \in other : i <= j) - 1

\* parse_value_basic: the string arm (151-186), `...` (376-377) and the
\* basic expression (378-388).  The arms between them start with
\* `ident(`, `[`, `~[` or `{`, which no text of the model does.
parse_value_basic(input) ==
    IF input # <<>> /\ input[1] = "\""
    THEN LET string == Tail(input)
             literal_string_end == FindQuoteOrBackslash(string)
         IN  IF ~IsSome(literal_string_end)
             THEN ValueErr("invalid string value")
             ELSE LET end == Unwrap(literal_string_end)
                  IN  StringEscapes(Bytes(SubSeq(string, 1, end)),
                                    SubSeq(string, end + 1, Len(string)))
    ELSE IF Len(input) >= 3 /\ SubSeq(input, 1, 3) = <<".", ".", ".">>
    THEN ValueOk("Truncated", <<>>, SubSeq(input, 4, Len(input)))
    ELSE IF input # <<>> /\ is_basic_expression_char(input[1])
    THEN LET end_basic_expr == EndBasicExpr(input)
         IN  ValueOk("Expression", Bytes(SubSeq(input, 1, end_basic_expr)),
                     SubSeq(input, end_basic_expr + 1, Len(input)))
    ELSE ValueErr("unrecognized expression")

Bodies == UNION {[1..n -> BodyChars] : n \in 1..MaxEscapeLen}

\* `body`: the characters after the backslash, up to the closing quote
InitString ==
    /\ InitPipeline(NoSinks, "scan")
    /\ rec = NoRecord
    /\ \E body \in Bodies, truncated \in BOOLEAN :
           scan = [at |-> "input", body |-> body,
                   input |-> <<"\"", "\\">> \o body \o <<"\"">>
                                 \o IF truncated THEN <<".", ".", ".">>
                                    ELSE <<>>,
                   returned |-> None]

ParseValue ==
    /\ scan.at = "input"
    /\ scan' = [scan EXCEPT !.at = "done",
                            !.returned = Some(parse_value_basic(scan.input))]
    /\ UNCHANGED <<pipeline_vars, rec>>

NextString == ParseValue

SpecString == InitString /\ [][NextString]_vars

(***************************************************************************)
(* SpecAnnotation: parse_value (parser.rs:391-552) on the texts            *)
(* `x<` body `>` and `x<` body `>(deleted)`, body being 0 to               *)
(* MaxAnnotationLen characters of AnnotationChars.                         *)
(***************************************************************************)
AnnotatedOk(value, annotation, deleted, rest) ==
    [ok |-> TRUE, tag |-> "Annotated", value |-> value,
     annotation |-> annotation, deleted |-> deleted, rest |-> rest,
     message |-> ""]

AnnotatedErr(message) ==
    [ok |-> FALSE, tag |-> "", value |-> <<>>, annotation |-> <<>>,
     deleted |-> FALSE, rest |-> <<>>, message |-> message]

Deleted == <<"(", "d", "e", "l", "e", "t", "e", "d", ")">>

StartsWith(text, prefix) ==
    Len(text) >= Len(prefix) /\ SubSeq(text, 1, Len(prefix)) = prefix

\* the loop at 401-477 and the `(deleted)` suffix (479-492); `annotation`
\* is the bytes so far, whether borrowed from the text or owned
RECURSIVE AnnotationLoop(_, _, _, _)
AnnotationLoop(value, annotation, depth, rest) ==
    IF rest = <<>>
    THEN AnnotatedErr("unterminated annotation, expected '>'")
    ELSE LET c == Head(rest)
             after == Tail(rest)
         IN  IF c = ">" /\ annotation # <<>>
                /\ annotation[Len(annotation)] = ByteOf["-"]
             THEN AnnotationLoop(value, Append(annotation, ByteOf[c]),
                                 depth, after)
             ELSE IF c = ">"
             THEN IF depth = 0
                  THEN IF StartsWith(after, Deleted)
                       THEN AnnotatedOk(value, annotation, TRUE,
                                        SubSeq(after, Len(Deleted) + 1,
                                               Len(after)))
                       ELSE AnnotatedOk(value, annotation, FALSE, after)
                  ELSE AnnotationLoop(value, Append(annotation, ByteOf[c]),
                                      depth - 1, after)
             ELSE IF c = "\\"
             THEN LET e == parse_string_escape_sequence(after)
                  IN  IF e.ok
                      THEN AnnotationLoop(value, Append(annotation, e.byte),
                                          depth, e.rest)
                      ELSE AnnotatedErr(e.message)
             ELSE AnnotationLoop(value, Append(annotation, ByteOf[c]),
                                 IF c = "<" THEN depth + 1 ELSE depth,
                                 after)

\* parse_value up to the annotation (391-493).  What may follow (a binary
\* operator, ` or `, `/*`, `=>`: 495-550) starts with a space or with one
\* of & | = ! /, which no text of the model holds.
parse_value(input) ==
    LET basic == parse_value_basic(input)
    IN  IF ~basic.ok THEN AnnotatedErr(basic.message)
        ELSE IF basic.rest # <<>> /\ basic.rest[1] = "<"
        THEN AnnotationLoop([tag |-> basic.tag, bytes |-> basic.bytes],
                            <<>>, 0, Tail(basic.rest))
        ELSE [ok |-> TRUE, tag |-> basic.tag,
              value |-> [tag |-> basic.tag, bytes |-> basic.bytes],
              annotation |-> <<>>, deleted |-> FALSE, rest |-> basic.rest,
              message |-> ""]

AnnotationBodies ==
    UNION {[1..n -> AnnotationChars] : n \in 0..MaxAnnotationLen}

\* `body`: the characters between the opening `<` and the last `>`
InitAnnotation ==
    /\ InitPipeline(NoSinks, "scan")
    /\ rec = NoRecord
    /\ \E body \in AnnotationBodies, deleted \in BOOLEAN :
           scan = [at |-> "input", body |-> body,
                   input |-> <<"x", "<">> \o body \o <<">">>
                                 \o IF deleted THEN Deleted ELSE <<>>,
                   returned |-> None]

ParseAnnotatedValue ==
    /\ scan.at = "input"
    /\ scan' = [scan EXCEPT !.at = "done",
                            !.returned = Some(parse_value(scan.input))]
    /\ UNCHANGED <<pipeline_vars, rec>>

NextAnnotation == ParseAnnotatedValue

SpecAnnotation == InitAnnotation /\ [][NextAnnotation]_vars

(***************************************************************************)
(* SpecLine: parse_line (parser.rs:13-98) on texts.  The inputs are the    *)
(* lines `7 <timestamp> f(` ARGS `)` spaces `= ` RESULT, with or without   *)
(* a closing ` <D>`; ARGS and RESULT are short texts that may themselves   *)
(* hold the separators.  A duration or timestamp is a record of seconds    *)
(* and nanoseconds.                                                        *)
(***************************************************************************)
\* the indices at which `pattern` occurs in `text`
Occurrences(text, pattern) ==
    {i \in 1..(Len(text) - Len(pattern) + 1) :
        SubSeq(text, i, i + Len(pattern) - 1) = pattern}

\* str::split_once
SplitOnce(text, pattern) ==
    LET at == Occurrences(text, pattern)
    IN  IF at = {} THEN None
        ELSE LET i == CHOOSE i \in at : \A j \in at : i <= j
             IN  Some([before |-> SubSeq(text, 1, i - 1),
                       after |-> SubSeq(text, i + Len(pattern), Len(text))])

\* str::rsplit_once
RSplitOnce(text, pattern) ==
    LET at == Occurrences(text, pattern)
    IN  IF at = {} THEN None
        ELSE LET i == CHOOSE i \in at : \A j \in at : i >= j
             IN  Some([before |-> SubSeq(text, 1, i - 1),
                       after |-> SubSeq(text, i + Len(pattern), Len(text))])

\* str::strip_prefix
StripPrefix(text, prefix) ==
    IF StartsWith(text, prefix)
    THEN Some(SubSeq(text, Len(prefix) + 1, Len(text)))
    ELSE None

\* str::strip_suffix
StripSuffix(text, suffix) ==
    IF Len(text) >= Len(suffix)
       /\ SubSeq(text, Len(text) - Len(suffix) + 1, Len(text)) = suffix
    THEN Some(SubSeq(text, 1, Len(text) - Len(suffix)))
    ELSE None

\* str::trim_ascii_end, str::trim_end: the space is the one whitespace
\* character of the texts
RECURSIVE TrimEnd(_)
TrimEnd(text) ==
    IF text # <<>> /\ text[Len(text)] = " "
    THEN TrimEnd(SubSeq(text, 1, Len(text) - 1))
    ELSE text

RECURSIVE TrimStart(_)
TrimStart(text) ==
    IF text # <<>> /\ text[1] = " " THEN TrimStart(Tail(text)) ELSE text

\* str::trim
Trim(text) == TrimStart(TrimEnd(text))

\* str::parse of i32 and i64: an optional sign, then decimal digits, at
\* least one; the texts of the model are far from the types' bounds
ParseInt(text) ==
    IF text = <<>> \/ text = <<"+">> \/ text = <<"-">> THEN None
    ELSE LET signed == text[1] \in {"+", "-"}
             value == RadixValue(IF signed THEN Tail(text) ELSE text, 10, 0)
         IN  IF ~IsSome(value) THEN None
             ELSE IF text[1] = "-" THEN Some(0 - Unwrap(value))
             ELSE value

\* nanoseconds of a second
NANOS_PER_SEC == 1000000000

RECURSIVE Pow10(_)
Pow10(n) == IF n = 0 THEN 1 ELSE 10 * Pow10(n - 1)

\* `(subsecond.parse::<f64>()? * 1_000_000_000.0).round() as i32`, then
\* clamp(0, 999_999_999), for a subsecond text `.` and decimal digits:
\* nine digits are exact, a tenth rounds
SubsecondNanos(subsecond) ==
    LET digits == Tail(subsecond)
        kept == IF Len(digits) < 9 THEN Len(digits) ELSE 9
        value == RadixValue(SubSeq(digits, 1, kept), 10, 0)
        more == RadixValue(SubSeq(digits, kept + 1, Len(digits)), 10, 0)
    IN  IF digits = <<>> \/ ~IsSome(value) \/ ~IsSome(more) THEN None
        ELSE LET nanos == Unwrap(value) * Pow10(9 - kept)
                              + IF Len(digits) > 9
                                   /\ Unwrap(ToDigit(digits[10], 10)) >= 5
                                THEN 1 ELSE 0
             IN  Some(IF nanos > NANOS_PER_SEC - 1
                      THEN NANOS_PER_SEC - 1 ELSE nanos)

\* jiff::SignedDuration::new: seconds and nanoseconds get the same sign
SignedDuration(seconds, nanoseconds) ==
    IF seconds < 0 /\ nanoseconds > 0
    THEN [seconds |-> seconds + 1,
          nanoseconds |-> nanoseconds - NANOS_PER_SEC]
    ELSE [seconds |-> seconds, nanoseconds |-> nanoseconds]

\* parse_duration (128-146)
parse_duration(s) ==
    LET dot == Occurrences(s, <<".">>)
        decimal_index == IF dot = {} THEN Len(s)
                         ELSE (CHOOSE i \in dot : \A j \in dot : i <= j) - 1
        seconds == ParseInt(SubSeq(s, 1, decimal_index))
        nanoseconds == IF dot = {} THEN Some(0)
                       ELSE SubsecondNanos(
                                SubSeq(s, decimal_index + 1, Len(s)))
    IN  IF IsSome(seconds) /\ IsSome(nanoseconds)
        THEN Some(SignedDuration(Unwrap(seconds), Unwrap(nanoseconds)))
        ELSE None

\* std::time::Duration::try_from(SignedDuration): no negative duration
DurationTryFrom(duration) ==
    IF IsSome(duration) /\ Unwrap(duration).seconds >= 0
       /\ Unwrap(duration).nanoseconds >= 0
    THEN duration
    ELSE None

LineOk(pid, timestamp, event) ==
    [ok |-> TRUE, pid |-> pid, timestamp |-> timestamp, event |-> event,
     message |-> ""]

LineErr(message) ==
    [ok |-> FALSE, pid |-> 0, timestamp |-> <<>>, event |-> <<>>,
     message |-> message]

\* the split at the first ` = `
SyscallResultSplitAtFirst(input) == SplitOnce(input, <<" ", "=", " ">>)

\* input.rsplit_once(" = ") (77-79)
SyscallResultSplit(input) == RSplitOnce(input, <<" ", "=", " ">>)

\* the syscall arm of parse_line (59-90); `input` follows the timestamp
ParseSyscall(pid, timestamp, input) ==
    LET name_and_rest == SplitOnce(input, <<"(">>)
    IN  IF ~IsSome(name_and_rest) THEN LineErr("failed to parse event")
        ELSE
        LET syscall_name == Unwrap(name_and_rest).before
            stripped == StripSuffix(Unwrap(name_and_rest).after, <<">">>)
            with_duration == IF IsSome(stripped)
                             THEN RSplitOnce(Unwrap(stripped), <<" ", "<">>)
                             ELSE None
        IN  IF ~IsSome(with_duration)
            THEN LineErr("expected duration at end of syscall")
            ELSE
            LET duration ==
                    DurationTryFrom(
                        parse_duration(Unwrap(with_duration).after))
                with_result == SyscallResultSplit(Unwrap(with_duration).before)
            IN  IF ~IsSome(duration) THEN LineErr("invalid duration")
                ELSE IF ~IsSome(with_result)
                THEN LineErr("failed to parse syscall result")
                ELSE
                LET args_string ==
                        StripSuffix(TrimEnd(Unwrap(with_result).before),
                                    <<")">>)
                IN  IF ~IsSome(args_string)
                    THEN LineErr("failed to parse syscall args")
                    ELSE LineOk(pid, timestamp,
                                [tag |-> "Syscall", name |-> syscall_name,
                                 args_string |-> Unwrap(args_string),
                                 result_string |->
                                     Trim(Unwrap(with_result).after),
                                 duration |-> Unwrap(duration)])

\* the texts "exited with " and "killed by "
ExitedWithPrefix ==
    <<"e", "x", "i", "t", "e", "d", " ", "w", "i", "t", "h", " ">>

KilledByPrefix == <<"k", "i", "l", "l", "e", "d", " ", "b", "y", " ">>

\* the `+++ ` arm of parse_line (35-51)
ParseExit(pid, timestamp, input) ==
    LET event_and_rest == RSplitOnce(input, <<" ", "+", "+", "+">>)
    IN  IF ~IsSome(event_and_rest)
        THEN LineErr("failed to parse exit event")
        ELSE IF Unwrap(event_and_rest).after # <<>>
        THEN LineErr("expected end of input")
        ELSE LET event == Unwrap(event_and_rest).before
                 exited == StripPrefix(event, ExitedWithPrefix)
                 killed == StripPrefix(event, KilledByPrefix)
             IN  IF IsSome(exited)
                 THEN LineOk(pid, timestamp,
                             [tag |-> "Exited",
                              code_string |-> Unwrap(exited)])
                 ELSE IF IsSome(killed)
                 THEN LineOk(pid, timestamp,
                             [tag |-> "KilledBy",
                              signal_string |-> Unwrap(killed)])
                 ELSE LineErr("could not parse exit event")

\* the `--- ` arm of parse_line (52-58)
ParseSignal(pid, timestamp, input) ==
    LET signal == StripSuffix(input, <<" ", "-", "-", "-">>)
    IN  IF IsSome(signal)
        THEN LineOk(pid, timestamp,
                    [tag |-> "Signal", signal |-> Unwrap(signal)])
        ELSE LineErr("failed to parse signal event")

parse_line(line) ==
    LET pid_and_rest == SplitOnce(line, <<" ">>)
    IN  IF ~IsSome(pid_and_rest) THEN LineErr("expected pid")
        ELSE
        LET pid == ParseInt(Unwrap(pid_and_rest).before)
            timestamp_and_rest == SplitOnce(Unwrap(pid_and_rest).after, <<" ">>)
        IN  IF ~IsSome(pid) THEN LineErr("invalid pid")
            ELSE IF ~IsSome(timestamp_and_rest)
            THEN LineErr("expected timestamp")
            ELSE
            LET timestamp == parse_duration(Unwrap(timestamp_and_rest).before)
                input == Unwrap(timestamp_and_rest).after
                exit == StripPrefix(input, <<"+", "+", "+", " ">>)
                signal == StripPrefix(input, <<"-", "-", "-", " ">>)
            IN  IF ~IsSome(timestamp) THEN LineErr("invalid timestamp")
                ELSE IF IsSome(exit)
                THEN ParseExit(Unwrap(pid), Unwrap(timestamp), Unwrap(exit))
                ELSE IF IsSome(signal)
                THEN ParseSignal(Unwrap(pid), Unwrap(timestamp),
                                 Unwrap(signal))
                ELSE ParseSyscall(Unwrap(pid), Unwrap(timestamp), input)

ArgsChars == {"a", " ", "=", "(", ")"}
ResultChars == {"0", " ", "=", "<", ">"}

ArgsTexts == UNION {[1..n -> ArgsChars] : n \in 0..MaxArgsLen}
ResultTexts == UNION {[1..n -> ResultChars] : n \in 1..MaxResultLen}
TimestampTexts == {<<"1">>, <<"1", ".", "5">>}
\* no duration block, ` <1>`, ` <1.5>`
DurationTexts == {<<>>, <<"1">>, <<"1", ".", "5">>}

Spaces(n) == [i \in 1..n |-> " "]

SyscallLine(timestamp, args, spaces, result, duration) ==
    <<"7", " ">> \o timestamp \o <<" ", "f", "(">> \o args \o <<")">>
        \o Spaces(spaces) \o <<"=", " ">> \o result
        \o IF duration = <<>> THEN <<>>
           ELSE <<" ", "<">> \o duration \o <<">">>

InitLine ==
    /\ InitPipeline(NoSinks, "scan")
    /\ rec = NoRecord
    /\ \E timestamp \in TimestampTexts, args \in ArgsTexts,
          spaces \in 1..MaxSpaces, result \in ResultTexts,
          duration \in DurationTexts :
           scan = [at |-> "input", timestamp |-> timestamp, args |-> args,
                   spaces |-> spaces, result |-> result,
                   duration |-> duration,
                   input |-> SyscallLine(timestamp, args, spaces, result,
                                         duration),
                   returned |-> None]

ParseLine ==
    /\ scan.at = "input"
    /\ scan' = [scan EXCEPT !.at = "done",
                            !.returned = Some(parse_line(scan.input))]
    /\ UNCHANGED <<pipeline_vars, rec>>

NextLine == ParseLine

SpecLine == InitLine /\ [][NextLine]_vars

(***************************************************************************)
(* SpecFork: the analyzer on lines whose result is a text.  The result()   *)
(* of a syscall and Value::as_i32 belong to the module root of `strace`;   *)
(* they follow the description of the value parser: the result is `?` or   *)
(* a value followed by a message, and as_i32 parses the text of an         *)
(* Expression as a signed 32-bit integer.                                  *)
(***************************************************************************)
\* SyscallEvent::result: `returned` is None for `?`, else the leading
\* value, here an Expression up to the first space
SyscallResult(result_string) ==
    LET split == SplitOnce(result_string, <<" ">>)
        head == IF IsSome(split) THEN Unwrap(split).before ELSE result_string
    IN  [returned |-> IF head = <<"?">> THEN None ELSE Some(head),
         message |-> IF IsSome(split) THEN Unwrap(split).after ELSE <<>>]

\* Value::as_i32 of an Expression: its text parsed as an i32 (the texts of
\* the model stay far from the bounds of the type)
as_i32(expression) ==
    IF \A i \in 1..Len(expression) :
           expression[i] \in {"0", "1", "2", "3", "-"}
    THEN ParseInt(expression)
    ELSE None

\* a failed call, `?`, a name, and pids
ForkResultTexts ==
    {<<"1">>, <<"2">>, <<"-", "1">>,
     <<"-", "1", " ", "E", "N", "O", "M", "E", "M">>, <<"?">>, <<"E">>}

\* the line of a fork-like call, as analyze (23-30) reads it
ForkResultLine(pid, name, result_string) ==
    LET returned == SyscallResult(result_string).returned
    IN  ForkLine(pid, 1, name, TRUE,
                 IF IsSome(returned) THEN as_i32(Unwrap(returned)) ELSE None)

InitFork ==
    /\ InitPipeline(NoSinks, "emit")
    /\ rec = NoRecord
    /\ scan = [at |-> "start"]

\* analyze on one line: a fork-like call, or an exec or exit of a pid
AnalyzeResultLine(pids, names, result_strings, max_lines) ==
    /\ pc = "emit"
    /\ line_index < max_lines
    /\ line_index' = line_index + 1
    /\ \E pid \in pids, name \in names \cup {"execve", "exit"},
          result_string \in result_strings :
           LET line == IF name \in ForkNames
                       THEN ForkResultLine(pid, name, result_string)
                       ELSE IF name = "execve"
                       THEN ExecveLine(pid, 1, TRUE, Some(<<"bin", "a">>))
                       ELSE ExitedLine(pid, 1, TRUE, Some(0))
               r == analyze(processes, line)
           IN  /\ name \notin ForkNames => result_string = <<"1">>
               /\ processes' = r.processes
               /\ last' = [result |-> r.result, event |-> r.event]
               /\ pc' = IF r.result = "Hang" THEN "hung" ELSE "emit"
               /\ scan' = [at |-> "analyzed", name |-> name,
                           result_string |-> result_string,
                           before |-> processes]
    /\ UNCHANGED <<sinks, queued_lines, otel, perfetto, nevents, arrived,
                   emitted, hist, rec>>

AnalyzeForkLine ==
    AnalyzeResultLine(Pids, ForkNames, ForkResultTexts, MaxForkLines)

NextFork == AnalyzeForkLine

SpecFork == InitFork /\ [][NextFork]_vars

(***************************************************************************)
(* SpecOwner: the analyzer on clone, execve and exit lines of three pids,  *)
(* a forker, its parent and a child.                                       *)
(***************************************************************************)
OwnerPids == 1..MaxOwnerPid

OwnerResultTexts == {<<"1">>, <<"2">>, <<"3">>}

AnalyzeOwnerLine ==
    AnalyzeResultLine(OwnerPids, {"clone"}, OwnerResultTexts, MaxOwnerLines)

NextOwner == AnalyzeOwnerLine

SpecOwner == InitFork /\ [][NextOwner]_vars

(***************************************************************************)
(* SpecArray: parse_value (parser.rs:391-552) on bracketed lists.  The     *)
(* texts are `[` item separator item ... `]` with up to MaxArrayItems      *)
(* items, each separator drawn on its own.  The characters of the texts    *)
(* are 1 a [ ] , = ! and the space, so the arms of parse_value_basic that  *)
(* start with a quote, `ident(`, `~[`, `{` or `...`, and the parts of      *)
(* parse_value that start with `<`, ` or `, `/*` or `=>`, are never        *)
(* entered.  A value is a record: Expression (its text), Array (its items) *)
(* or BinaryOperations (the first operand, then operator and operand).     *)
(***************************************************************************)
Expression(text) == [tag |-> "Expression", text |-> text]
Array(items) == [tag |-> "Array", items |-> items]
BinaryOperations(first, operators_and_operands) ==
    [tag |-> "BinaryOperations", first |-> first,
     operators_and_operands |-> operators_and_operands]

ParsedOk(value, rest) ==
    [ok |-> TRUE, value |-> value, rest |-> rest, message |-> ""]
ParsedErr(message) ==
    [ok |-> FALSE, value |-> <<>>, rest |-> <<>>, message |-> message]

\* parse_binary_op (681-697): the operator is looked for after leading
\* spaces, and the spaces after it are dropped
parse_binary_op(input) ==
    LET trimmed == TrimStart(input)
        op == IF StartsWith(trimmed, <<"&", "&">>) THEN "And"
              ELSE IF StartsWith(trimmed, <<"|", "|">>) THEN "Or"
              ELSE IF StartsWith(trimmed, <<"=", "=">>) THEN "Equal"
              ELSE IF StartsWith(trimmed, <<"!", "=">>) THEN "NotEqual"
              ELSE ""
    IN  IF op = "" THEN None
        ELSE Some([op |-> op,
                   rest |-> TrimStart(SubSeq(trimmed, 3, Len(trimmed)))])

\* a separator step that takes `, ` or ` ` before every item, whatever the
\* first separator was
SeparatorOfEitherKind(is_first, needs_comma, rest) ==
    IF is_first
    THEN [ok |-> TRUE, needs_comma |-> needs_comma, rest |-> rest,
          message |-> ""]
    ELSE IF StartsWith(rest, <<",", " ">>)
    THEN [ok |-> TRUE, needs_comma |-> Some(TRUE),
          rest |-> SubSeq(rest, 3, Len(rest)), message |-> ""]
    ELSE IF StartsWith(rest, <<" ">>)
    THEN [ok |-> TRUE, needs_comma |-> Some(FALSE), rest |-> Tail(rest),
          message |-> ""]
    ELSE [ok |-> FALSE, needs_comma |-> needs_comma, rest |-> rest,
          message |-> "expected ' ' or ', ' or ']' after first array item"]

\* the separator step of the array loop (291-314): nothing before the
\* first item; the first separator seen sets needs_comma, and every later
\* one has to be the one needs_comma names
Separator(is_first, needs_comma, rest) ==
    IF is_first
    THEN [ok |-> TRUE, needs_comma |-> needs_comma, rest |-> rest,
          message |-> ""]
    ELSE IF needs_comma = Some(TRUE)
    THEN IF StartsWith(rest, <<",", " ">>)
         THEN [ok |-> TRUE, needs_comma |-> needs_comma,
               rest |-> SubSeq(rest, 3, Len(rest)), message |-> ""]
         ELSE [ok |-> FALSE, needs_comma |-> needs_comma, rest |-> rest,
               message |-> "expected ', ' or ']' after array item"]
    ELSE IF needs_comma = Some(FALSE)
    THEN IF StartsWith(rest, <<" ">>)
         THEN [ok |-> TRUE, needs_comma |-> needs_comma,
               rest |-> Tail(rest), message |-> ""]
         ELSE [ok |-> FALSE, needs_comma |-> needs_comma, rest |-> rest,
               message |-> "expected ' ' after bitset element"]
    ELSE IF StartsWith(rest, <<",", " ">>)
    THEN [ok |-> TRUE, needs_comma |-> Some(TRUE),
          rest |-> SubSeq(rest, 3, Len(rest)), message |-> ""]
    ELSE IF StartsWith(rest, <<" ">>)
    THEN [ok |-> TRUE, needs_comma |-> Some(FALSE), rest |-> Tail(rest),
          message |-> ""]
    ELSE [ok |-> FALSE, needs_comma |-> needs_comma, rest |-> rest,
          message |-> "expected ' ' or ', ' or ']' after first array item"]

RECURSIVE ArrayLoop(_, _, _, _)
RECURSIVE IsSparseArray(_)
RECURSIVE BracketValue(_)
RECURSIVE OperatorLoop(_, _)
RECURSIVE ValueWithOperators(_)

\* the loop of the array arm (282-321)
ArrayLoop(items, is_first, needs_comma, rest) ==
    IF StartsWith(rest, <<"]">>)
    THEN ParsedOk(Array(items), Tail(rest))
    ELSE IF rest = <<>>
    THEN ParsedErr("unexpected end of array")
    ELSE LET separator == Separator(is_first, needs_comma, rest)
         IN  IF ~separator.ok THEN ParsedErr(separator.message)
             ELSE LET next_item == ValueWithOperators(separator.rest)
                  IN  IF ~next_item.ok THEN next_item
                      ELSE ArrayLoop(Append(items, next_item.value), FALSE,
                                     separator.needs_comma, next_item.rest)

\* the test of the sparse array (226-232): `[`, a value, `]`, `=`, with
\* spaces allowed before each but the value
IsSparseArray(rest) ==
    LET inner == StripPrefix(TrimStart(rest), <<"[">>)
    IN  /\ IsSome(inner)
        /\ LET first_index == ValueWithOperators(Unwrap(inner))
           IN  /\ first_index.ok
               /\ LET closed == StripPrefix(TrimStart(first_index.rest),
                                            <<"]">>)
                  IN  /\ IsSome(closed)
                      /\ IsSome(StripPrefix(TrimStart(Unwrap(closed)),
                                            <<"=">>))

\* parse_value_basic: the `[` arm (225-322) and the basic expression
\* (378-388).  The items of a sparse array are not modelled.
BracketValue(input) ==
    IF StartsWith(input, <<"[">>)
    THEN IF IsSparseArray(Tail(input))
         THEN ParsedOk([tag |-> "SparseArray"], <<>>)
         ELSE ArrayLoop(<<>>, TRUE, None, Tail(input))
    ELSE IF input # <<>> /\ is_basic_expression_char(input[1])
    THEN LET end_basic_expr == EndBasicExpr(input)
         IN  ParsedOk(Expression(SubSeq(input, 1, end_basic_expr)),
                      SubSeq(input, end_basic_expr + 1, Len(input)))
    ELSE ParsedErr("unrecognized expression")

\* the loop over parse_binary_op (495-506)
OperatorLoop(operators_and_operands, rest) ==
    LET op == parse_binary_op(rest)
    IN  IF ~IsSome(op)
        THEN [ok |-> TRUE, operators_and_operands |-> operators_and_operands,
              rest |-> rest, message |-> ""]
        ELSE LET next_value == BracketValue(Unwrap(op).rest)
             IN  IF ~next_value.ok
                 THEN [ok |-> FALSE, operators_and_operands |-> <<>>,
                       rest |-> <<>>, message |-> next_value.message]
                 ELSE OperatorLoop(
                          Append(operators_and_operands,
                                 <<Unwrap(op).op, next_value.value>>),
                          next_value.rest)

\* parse_value: the basic value, then the binary operators (495-513)
ValueWithOperators(input) ==
    LET basic == BracketValue(input)
    IN  IF ~basic.ok THEN basic
        ELSE LET ops == OperatorLoop(<<>>, basic.rest)
             IN  IF ~ops.ok THEN ParsedErr(ops.message)
                 ELSE IF ops.operators_and_operands = <<>>
                 THEN ParsedOk(basic.value, ops.rest)
                 ELSE ParsedOk(BinaryOperations(basic.value,
                                   ops.operators_and_operands),
                               ops.rest)

\* the items of the lists: a text and the value it stands for
ArrayItems ==
    {[text |-> <<"1">>, value |-> Expression(<<"1">>)],
     [text |-> <<"[", "]">>, value |-> Array(<<>>)],
     [text |-> <<"[", "a", " ", "1", "]">>,
      value |-> Array(<<Expression(<<"a">>), Expression(<<"1">>)>>)],
     [text |-> <<"[", "a", ",", " ", "1", "]">>,
      value |-> Array(<<Expression(<<"a">>), Expression(<<"1">>)>>)]}

\* what may stand between two items
ArraySeparators == {<<",", " ">>, <<" ">>, <<",">>, <<" ", " ">>}

RECURSIVE JoinItems(_, _)
JoinItems(items, separators) ==
    IF items = <<>> THEN <<>>
    ELSE IF Len(items) = 1 THEN items[1].text
    ELSE items[1].text \o separators[1]
             \o JoinItems(Tail(items), Tail(separators))

InitArray ==
    /\ InitPipeline(NoSinks, "scan")
    /\ rec = NoRecord
    /\ \E n \in 0..MaxArrayItems :
           \E items \in [1..n -> ArrayItems],
              separators \in [1..(IF n = 0 THEN 0 ELSE n - 1)
                                  -> ArraySeparators] :
               scan = [at |-> "input", items |-> items,
                       separators |-> separators,
                       input |-> <<"[">> \o JoinItems(items, separators)
                                     \o <<"]">>,
                       returned |-> None]

ParseArray ==
    /\ scan.at = "input"
    /\ scan' = [scan EXCEPT
                   !.at = "done",
                   !.returned = Some(ValueWithOperators(scan.input))]
    /\ UNCHANGED <<pipeline_vars, rec>>

NextArray == ParseArray

SpecArray == InitArray /\ [][NextArray]_vars

(***************************************************************************)
(* SpecField: parse_field (parser.rs:572-592) on the texts of 1 to         *)
(* MaxFieldLen characters of FieldChars.                                   *)
(***************************************************************************)
FieldChars == {"a", "1", " ", "=", "!"}

\* the characters `'a'..='z' | 'A'..='Z' | '_'` of the texts
IdentStartChars == {"a", "d", "e", "l", "t", "n", "q", "x", "F", "_"}

\* the characters `'a'..='z' | 'A'..='Z' | '0'..='9' | '_'` of the texts
IdentChars == IdentStartChars \cup OctalDigits \cup {"8", "9"}

\* parse_ident (648-667): the longest prefix that is an identifier, or Err
\* when the first character cannot start one
parse_ident(input) ==
    LET stops == {i \in 1..Len(input) :
                     IF i = 1 THEN input[i] \notin IdentStartChars
                     ELSE input[i] \notin IdentChars}
        end == IF stops = {} THEN Len(input)
               ELSE (CHOOSE i \in stops : \A j \in stops : i <= j) - 1
    IN  IF end = 0 THEN None
        ELSE Some([ident |-> SubSeq(input, 1, end),
                   rest |-> SubSeq(input, end + 1, Len(input))])

\* is_ident (669-675)
is_ident(value) ==
    LET parsed == parse_ident(value)
    IN  IsSome(parsed) /\ Unwrap(parsed).rest = <<>>

FieldOf(name, parsed) ==
    [ok |-> parsed.ok, name |-> IF parsed.ok THEN name ELSE None,
     value |-> parsed.value, rest |-> parsed.rest,
     message |-> parsed.message]

\* parse_field: the text is split at its first `=`; it is a named field
\* when the part before, trimmed, is an identifier and the part after has
\* more than spaces
parse_field(input) ==
    LET split == SplitOnce(input, <<"=">>)
        name == IF IsSome(split) THEN Trim(Unwrap(split).before) ELSE <<>>
        rest == IF IsSome(split) THEN TrimStart(Unwrap(split).after)
                ELSE <<>>
        name_and_rest == /\ IsSome(split)
                         /\ name # <<>>
                         /\ rest # <<>>
                         /\ is_ident(name)
    IN  IF name_and_rest
        THEN FieldOf(Some(name), ValueWithOperators(rest))
        ELSE FieldOf(None, ValueWithOperators(input))

FieldTexts == UNION {[1..n -> FieldChars] : n \in 1..MaxFieldLen}

InitField ==
    /\ InitPipeline(NoSinks, "scan")
    /\ rec = NoRecord
    /\ \E input \in FieldTexts :
           scan = [at |-> "input", input |-> input, returned |-> None]

ParseField ==
    /\ scan.at = "input"
    /\ scan' = [scan EXCEPT !.at = "done",
                            !.returned = Some(parse_field(scan.input))]
    /\ UNCHANGED <<pipeline_vars, rec>>

NextField == ParseField

SpecField == InitField /\ [][NextField]_vars

(***************************************************************************)
(* SpecEmitter: the Analyzer and the EventEmitter (src/src/strace/         *)
(* emitter.rs) side by side on the same lines.  The emitter is the record  *)
(* in `scan`: its `processes` map, its `events` queue, and, for the        *)
(* properties, `pushed` (every event pushed so far) and `popped` (the      *)
(* events pop_event returned so far).  The k-th line has timestamp k.      *)
(***************************************************************************)
EmitterEvent(line, owner_pid, kind) ==
    [timestamp |-> line.timestamp, pid |-> line.pid, owner_pid |-> owner_pid,
     kind |-> kind]

PushBack(e, event) ==
    [e EXCEPT !.events = Append(@, event), !.pushed = Append(@, event)]

\* EventEmitter::handle_log
EmitterHandleLog(e, line) ==
    LET owner_pid == IF line.pid \in DOMAIN e.processes
                     THEN e.processes[line.pid].owner_pid
                     ELSE None
    IN  PushBack(e, EmitterEvent(line, owner_pid, [tag |-> "Log"]))

\* EventEmitter::handle_fork; `hang` when find_owner_pid never returns
EmitterHandleFork(e, line, child_pid) ==
    IF IsSome(child_pid)
    THEN LET walk == find_owner_pid(e.processes, line.pid)
             procs2 == OrInsertWith(e.processes, Unwrap(child_pid),
                           ProcessState(Some(line.pid), walk.owner, "Forked"))
         IN  IF walk.diverges
             THEN [hang |-> TRUE, emitter |-> e]
             ELSE [hang |-> FALSE,
                   emitter |-> EmitterHandleLog(
                                   [e EXCEPT !.processes = procs2], line)]
    ELSE [hang |-> FALSE, emitter |-> EmitterHandleLog(e, line)]

\* EventEmitter::handle_exec
EmitterHandleExec(e, line) ==
    LET procs2 == OrInsertWith(e.processes, line.pid,
                      ProcessState(None, None, "Forked"))
        process_state == procs2[line.pid]
        e1 == IF process_state.status = "Execed"
              THEN PushBack(e, EmitterEvent(line, process_state.owner_pid,
                                   [tag |-> "StopProcess",
                                    stopped |-> [reason |-> "ReExeced"]]))
              ELSE e
        e2 == [e1 EXCEPT
                  !.processes = [procs2 EXCEPT ![line.pid].status = "Execed"]]
    IN  PushBack(e2, EmitterEvent(line, process_state.owner_pid,
                         [tag |-> "StartProcess",
                          parent_pid |-> process_state.parent_pid,
                          owner_pid |-> process_state.owner_pid,
                          command |-> ExecCommand(line)]))

\* a handle_stopped that reports every stop as the stop of a process
EmitterHandleStoppedAlways(e, line) ==
    LET procs2 == OrInsertWith(e.processes, line.pid,
                      ProcessState(None, None, "Stopped"))
        e1 == [e EXCEPT
                  !.processes = [procs2 EXCEPT ![line.pid].status = "Stopped"]]
    IN  PushBack(e1, EmitterEvent(line, procs2[line.pid].owner_pid,
                         [tag |-> "StopProcess",
                          stopped |-> StoppedReason(line)]))

\* EventEmitter::handle_stopped
EmitterHandleStopped(e, line) ==
    LET procs2 == OrInsertWith(e.processes, line.pid,
                      ProcessState(None, None, "Stopped"))
        did_exec == procs2[line.pid].status = "Execed"
        e1 == [e EXCEPT
                  !.processes = [procs2 EXCEPT ![line.pid].status = "Stopped"]]
    IN  IF did_exec
        THEN PushBack(e1, EmitterEvent(line, procs2[line.pid].owner_pid,
                              [tag |-> "StopProcess",
                               stopped |-> StoppedReason(line)]))
        ELSE EmitterHandleLog(e1, line)

\* EventEmitter::push_line: Err (`?` on result(), args(), code()) comes
\* before any handler
push_line(e, line) ==
    IF ~line.parse_ok
    THEN [result |-> "Err", emitter |-> e]
    ELSE IF line.event = "Syscall" /\ line.name \in ForkNames
    THEN LET h == EmitterHandleFork(e, line, line.returned)
         IN  [result |-> IF h.hang THEN "Hang" ELSE "Ok",
              emitter |-> h.emitter]
    ELSE IF line.event = "Syscall" /\ line.name \in {"execve", "execveat"}
    THEN [result |-> "Ok", emitter |-> EmitterHandleExec(e, line)]
    ELSE IF line.event \in {"Exited", "KilledBy"}
    THEN [result |-> "Ok", emitter |-> EmitterHandleStopped(e, line)]
    ELSE [result |-> "Ok", emitter |-> EmitterHandleLog(e, line)]

\* EventEmitter::pop_event on a queue that is not empty
pop_event(e) ==
    [e EXCEPT !.events = Tail(@), !.popped = Append(@, Head(e.events))]

InitEmitter ==
    /\ InitPipeline(NoSinks, "emit")
    /\ rec = NoRecord
    /\ scan = [at |-> "emitter", processes |-> <<>>, events |-> <<>>,
               pushed |-> <<>>, popped |-> <<>>, result |-> "None"]

\* one line goes to Analyzer::analyze and to EventEmitter::push_line
PushLine ==
    /\ pc = "emit"
    /\ line_index < MaxEmitterLines
    /\ line_index' = line_index + 1
    /\ \E l \in AnalyzerLines :
           LET line == [l EXCEPT !.timestamp = line_index + 1]
               r == analyze(processes, line)
               pushed == push_line(scan, line)
           IN  /\ processes' = r.processes
               /\ last' = [result |-> r.result, event |-> r.event]
               /\ pc' = IF r.result = "Hang" \/ pushed.result = "Hang"
                        THEN "hung" ELSE "emit"
               /\ scan' = [pushed.emitter EXCEPT !.result = pushed.result]
    /\ UNCHANGED <<sinks, queued_lines, otel, perfetto, nevents, arrived,
                   emitted, hist, rec>>

PopEvent ==
    /\ pc = "emit"
    /\ scan.events # <<>>
    /\ scan' = pop_event(scan)
    /\ UNCHANGED <<pipeline_vars, rec>>

NextEmitter == PushLine \/ PopEvent

SpecEmitter == InitEmitter /\ [][NextEmitter]_vars

(***************************************************************************)
(* SpecExec: the analyzer on execve and execveat lines that carry a result *)
(* text, among clone and exit lines.  `scan` keeps the line's name, result *)
(* text, whether its argument text parsed, and the map before the line.    *)
(***************************************************************************)
\* a successful call, failed calls, and a call without result
ExecResultTexts ==
    {<<"0">>, <<"-", "1", " ", "E", "N", "O", "E", "N", "T">>,
     <<"-", "1", " ", "E", "A", "C", "C", "E", "S">>, <<"?">>}

\* the line of an exec call; analyze (31-73) forces args() only
ExecResultLine(pid, name, args_ok, result_string) ==
    LET returned == SyscallResult(result_string).returned
        line == IF name = "execve"
                THEN ExecveLine(pid, 1, args_ok, Some(<<"bin", "a">>))
                ELSE ExecveatLine(pid, 1, args_ok, Some(<<"dir">>),
                                  Some(<<"bin", "a">>))
    IN  [line EXCEPT
            !.returned = IF IsSome(returned) THEN as_i32(Unwrap(returned))
                         ELSE None]

InitExec ==
    /\ InitPipeline(NoSinks, "emit")
    /\ rec = NoRecord
    /\ scan = [at |-> "start"]

AnalyzeExecLine ==
    /\ pc = "emit"
    /\ line_index < MaxExecLines
    /\ line_index' = line_index + 1
    /\ \E pid \in Pids, name \in {"execve", "execveat", "clone", "exit"},
          args_ok \in BOOLEAN, result_string \in ExecResultTexts :
           LET line == IF name = "clone"
                       THEN ForkResultLine(pid, name, <<"2">>)
                       ELSE IF name = "exit"
                       THEN ExitedLine(pid, 1, TRUE, Some(0))
                       ELSE ExecResultLine(pid, name, args_ok, result_string)
               r == analyze(processes, line)
           IN  /\ name \in {"clone", "exit"}
                      => args_ok /\ result_string = <<"0">>
               /\ processes' = r.processes
               /\ last' = [result |-> r.result, event |-> r.event]
               /\ pc' = IF r.result = "Hang" THEN "hung" ELSE "emit"
               /\ scan' = [at |-> "exec", pid |-> pid, name |-> name,
                           args_ok |-> args_ok,
                           result_string |-> result_string,
                           before |-> processes]
    /\ UNCHANGED <<sinks, queued_lines, otel, perfetto, nevents, arrived,
                   emitted, hist, rec>>

NextExec == AnalyzeExecLine

SpecExec == InitExec /\ [][NextExec]_vars

(***************************************************************************)
(* SpecTracks: the analyzer and the flame-chart sink on execve, exit,      *)
(* clone and openat lines of two pids.  `scan` keeps every packet the sink *)
(* wrote, in order, and the uuids rand::random() returned to output_event  *)
(* (the draws of or_insert_with and of the re-exec), in order.             *)
(***************************************************************************)
TrackLines ==
    UNION {{ExecveLine(pid, 1, TRUE, Some(<<"bin", "a">>)),
            ExitedLine(pid, 1, TRUE, Some(0)),
            ForkLine(pid, 1, "clone", TRUE, Some(3 - pid)),
            OtherSyscallLine(pid, 1)} : pid \in Pids}
        \cup {ExitedLine(1, 1, FALSE, None)}

InitTracks ==
    /\ \E l \in BOOLEAN :
           InitPipeline([otel |-> FALSE, perfetto |-> TRUE, logs |-> l,
                         relative_to |-> None], "emit")
    /\ rec = NoRecord
    /\ scan = [at |-> "tracks", written |-> <<>>, drawn |-> <<>>]

\* analyze, then PerfettoOutput::output_event on the event
EmitTrack ==
    /\ pc = "emit"
    /\ nevents < MaxTrackEvents
    /\ \E line \in TrackLines :
           \E random1 \in Draw1(line), random2 \in Draw2(line) :
               LET r == analyze(processes, line)
                   ok == r.result = "Ok"
                   drawn1 == IF ok /\ line.pid
                                 \notin DOMAIN perfetto.track_uuids_by_pid
                             THEN <<random1>> ELSE <<>>
                   drawn2 == IF ok
                                /\ Unwrap(r.event).kind.tag = "ExecProcess"
                                /\ Unwrap(r.event).kind.re_exec
                             THEN <<random2>> ELSE <<>>
               IN  /\ processes' = r.processes
                   /\ last' = [result |-> r.result, event |-> r.event]
                   /\ pc' = IF r.result = "Hang" THEN "hung" ELSE "emit"
                   /\ nevents' = IF ok THEN nevents + 1 ELSE nevents
                   /\ perfetto' = IF ok
                                  THEN PerfettoOutputEvent(perfetto,
                                           Unwrap(r.event), random1, random2)
                                  ELSE perfetto
                   /\ scan' = IF ok
                              THEN [scan EXCEPT
                                       !.written = @ \o perfetto'.written,
                                       !.drawn = @ \o drawn1 \o drawn2]
                              ELSE scan
    /\ UNCHANGED <<sinks, queued_lines, line_index, otel, arrived, emitted,
                   hist, rec>>

NextTracks == EmitTrack

SpecTracks == InitTracks /\ [][NextTracks]_vars

(***************************************************************************)
(* Properties.                                                             *)
(***************************************************************************)
Event == Unwrap(last.event)
EventAfter == Unwrap(last'.event)

NonDecreasing(seq) ==
    \A i \in 1..Len(seq) - 1 : seq[i].timestamp <= seq[i + 1].timestamp

\* no two lines out of order by timestamp are more than WINDOW_SIZE apart
BoundedDisplacement(seq) ==
    \A i \in 1..Len(seq), j \in 1..Len(seq) :
        (i < j /\ seq[i].timestamp > seq[j].timestamp)
            => j - i <= WINDOW_SIZE

CountOf(seq, ts) == Cardinality({i \in 1..Len(seq) : seq[i].timestamp = ts})

\* C1: if no two lines whose timestamps are out of order are farther apart
\* in arrival order than WINDOW_SIZE, the lines handed to the analyzer
\* (evictions, then the drain) are non-decreasing by timestamp.
C1_BoundedDisplacementSorted ==
    BoundedDisplacement(arrived) => NonDecreasing(emitted)

\* a finished run with an eviction and a pair out of order exactly
\* WINDOW_SIZE apart
C1_Witness ==
    /\ pc = "done"
    /\ Len(emitted) > WINDOW_SIZE
    /\ BoundedDisplacement(arrived)
    /\ \E i \in 1..Len(arrived) :
           /\ i + WINDOW_SIZE <= Len(arrived)
           /\ arrived[i].timestamp > arrived[i + WINDOW_SIZE].timestamp
    /\ \E i \in 1..Len(emitted) : emitted[i].line_index # arrived[i].line_index

\* C2: for an input of at most WINDOW_SIZE scanned lines, the timestamps
\* handed to the analyzer are the input timestamps sorted ascending (same
\* length, same multiset).
C2_SmallInputSorted ==
    (pc = "done" /\ Len(arrived) <= WINDOW_SIZE)
        => /\ Len(emitted) = Len(arrived)
           /\ NonDecreasing(emitted)
           /\ \A ts \in WindowTimestamps :
                  CountOf(emitted, ts) = CountOf(arrived, ts)

\* C3: every line that scans is handed to the analyzer exactly once, and
\* lines of equal timestamp are handed over in arrival order.
C3_EveryLineDeliveredOnce ==
    pc = "done"
        => /\ \A i \in 1..Len(arrived) :
                  Cardinality({j \in 1..Len(emitted) :
                      emitted[j].line_index = arrived[i].line_index}) = 1
           /\ \A i \in 1..Len(emitted), j \in 1..Len(emitted) :
                  (i < j /\ emitted[i].timestamp = emitted[j].timestamp)
                      => emitted[i].line_index < emitted[j].line_index

SpanOf(pid, name) ==
    {i \in 1..Len(otel.spans) :
        otel.spans[i].pid = pid /\ otel.spans[i].name = <<name>>}

\* C4 as claimed: in scenario 2 (pid 1 clone returns 2; pid 1 execve
\* /bin/a; pid 2 execve /bin/b; exits in reverse) the remote-span sink
\* starts span b with span a as its parent, not the root span.
C4_Scenario2SpanParent ==
    hist.scenario \in {"s3", "s4", "s5"}
        => \E a \in SpanOf(1, "a"), b \in SpanOf(2, "b") :
               otel.spans[b].parent = Some(a)

\* C4 amended: in scenario 2 the remote-span sink starts span b with the
\* root span as its parent, as it started span a: the owner of pid 2 was
\* resolved to none when the clone was processed, before pid 1's exec.
C4_Scenario2SpanUnderRoot ==
    hist.scenario \in {"s3", "s4", "s5"}
        => /\ IsSome(otel.root_span)
           /\ SpanOf(1, "a") # {} /\ SpanOf(2, "b") # {}
           /\ \A a \in SpanOf(1, "a"), b \in SpanOf(2, "b") :
                  /\ otel.spans[a].parent = None
                  /\ otel.spans[b].parent = None
                  /\ hist.scenario # "s5"
                         => a \in {otel.process_spans[p] :
                                      p \in DOMAIN otel.process_spans}

\* scenario 2 has run up to the exec of /bin/b by pid 2
C4_Witness ==
    /\ hist.scenario = "s3"
    /\ last.result = "Ok"
    /\ Event.pid = 2
    /\ Event.kind.tag = "ExecProcess"
    /\ Event.parent_pid = Some(1)
    /\ Event.owner_pid = None

\* C5 as claimed: after a fork by p returns c, every later event of pid c
\* carries parent_pid = p, whatever the analyzer knew of c before.
C5_ParentAfterAnyFork ==
    [][last'.result = "Ok"
          => (IsSome(hist.forked_by[EventAfter.pid])
                 => EventAfter.parent_pid =
                        Some(Unwrap(hist.forked_by[EventAfter.pid]).by))]_vars

\* C5 amended: after a fork by p returns c while c has no entry in the
\* process map, every later event of pid c carries parent_pid = p.
C5_ParentAfterCreatingFork ==
    [][last'.result = "Ok"
          => (IsSome(hist.created[EventAfter.pid])
                 => EventAfter.parent_pid =
                        Some(Unwrap(hist.created[EventAfter.pid]).by))]_vars

\* a later exec of a child created by another pid's fork
C5_Witness ==
    /\ last.result = "Ok"
    /\ Event.kind.tag = "ExecProcess"
    /\ IsSome(hist.created[Event.pid])
    /\ Unwrap(hist.created[Event.pid]).by # Event.pid
    /\ Event.parent_pid = Some(Unwrap(hist.created[Event.pid]).by)

\* C6 as claimed: once p has had an Exec event, every later Fork event of a
\* fork by p reports child_owner_pid = p, and later events of that child
\* carry owner_pid = p.
C6_OwnerAfterExec ==
    [][last'.result = "Ok"
          => /\ (EventAfter.kind.tag = "ForkProcess"
                    /\ hist.execed_once[EventAfter.pid])
                    => EventAfter.kind.child_owner_pid = Some(EventAfter.pid)
             /\ (/\ IsSome(hist.forked_by[EventAfter.pid])
                 /\ Unwrap(hist.forked_by[EventAfter.pid]).after_exec)
                    => EventAfter.owner_pid =
                           Some(Unwrap(hist.forked_by[EventAfter.pid]).by)]_vars

\* C6 amended: a fork by p while p's status is Execed and the child has no
\* entry reports child_owner_pid = p, and later events of that child carry
\* owner_pid = p.
C6_OwnerAfterForkByExeced ==
    [][last'.result = "Ok"
          => /\ (/\ EventAfter.kind.tag = "ForkProcess"
                 /\ EventAfter.pid \in DOMAIN processes
                 /\ processes[EventAfter.pid].status = "Execed"
                 /\ EventAfter.kind.child_pid \notin DOMAIN processes)
                    => EventAfter.kind.child_owner_pid = Some(EventAfter.pid)
             /\ (/\ IsSome(hist.created[EventAfter.pid])
                 /\ Unwrap(hist.created[EventAfter.pid]).by_execed)
                    => EventAfter.owner_pid =
                           Some(Unwrap(hist.created[EventAfter.pid]).by)]_vars

\* a later stop of a child that an Execed pid forked
C6_Witness ==
    /\ last.result = "Ok"
    /\ Event.kind.tag = "StopProcess"
    /\ IsSome(hist.created[Event.pid])
    /\ Unwrap(hist.created[Event.pid]).by_execed
    /\ Unwrap(hist.created[Event.pid]).by # Event.pid
    /\ Event.owner_pid = Some(Unwrap(hist.created[Event.pid]).by)

\* C7: an Exec event of pid p carries re_exec = TRUE iff p's status right
\* before the line was Execed, that is iff the latest of p's Exec and Stop
\* events is an Exec; a first exec and an exec after a Stop carry FALSE.
C7_ReExecIffExeced ==
    [][(last'.result = "Ok" /\ EventAfter.kind.tag = "ExecProcess")
          => /\ EventAfter.kind.re_exec
                    <=> (/\ EventAfter.pid \in DOMAIN processes
                         /\ processes[EventAfter.pid].status = "Execed")
             /\ EventAfter.kind.re_exec
                    <=> hist.lifecycle[EventAfter.pid] = "exec"]_vars

\* a second exec with no stop in between
C7_Witness ==
    /\ last.result = "Ok"
    /\ Event.kind.tag = "ExecProcess"
    /\ Event.kind.re_exec
    /\ hist.lifecycle[Event.pid] = "exec"

EndedSpans(o) == {i \in 1..Len(o.spans) : IsSome(o.spans[i].end)}

\* C8: a Stop event of a pid whose status was not Execed carries
\* did_exec = FALSE, and for it the flame-chart sink writes no slice-end
\* packet and the remote-span sink ends no span.
C8_StopWithoutExecIsOnlyALog ==
    [][(/\ last'.result = "Ok"
        /\ EventAfter.kind.tag = "StopProcess"
        /\ ~(/\ EventAfter.pid \in DOMAIN processes
             /\ processes[EventAfter.pid].status = "Execed"))
          => /\ ~EventAfter.kind.did_exec
             /\ \A i \in 1..Len(perfetto'.written) :
                    perfetto'.written[i].type # "SliceEnd"
             /\ EndedSpans(otel') = EndedSpans(otel)]_vars

\* C9: once p's status is Stopped no exec, exit or kill line of p changes
\* it; it leaves Stopped only through a fork by another pid that returns p.
C9_StoppedIsTerminal ==
    [][\A p \in DOMAIN processes :
           (processes[p].status = "Stopped"
                /\ processes'[p].status # "Stopped")
               => /\ last'.result = "Ok"
                  /\ EventAfter.kind.tag = "ForkProcess"
                  /\ EventAfter.kind.child_pid = p
                  /\ EventAfter.pid # p]_vars

\* C10: a fork by q that returns a pid c whose status is Stopped makes c's
\* entry Forked with parent_pid = q and the owner computed from q.
C10_PidReuseReentersForked ==
    [][(/\ last'.result = "Ok"
        /\ EventAfter.kind.tag = "ForkProcess"
        /\ EventAfter.kind.child_pid \in DOMAIN processes
        /\ processes[EventAfter.kind.child_pid].status = "Stopped")
          => processes'[EventAfter.kind.child_pid] =
                 ProcessState(Some(EventAfter.pid),
                              find_owner_pid(processes, EventAfter.pid).owner,
                              "Forked")]_vars

\* C11 as claimed: if an entry has parent_pid = q then q has an entry in
\* the process map, and q's entry existed before the child's entry was
\* created.
C11_ParentHasEntry ==
    \A c \in DOMAIN processes :
        IsSome(processes[c].parent_pid)
            => /\ Unwrap(processes[c].parent_pid) \in DOMAIN processes
               /\ IsSome(hist.created[c])
               /\ Unwrap(hist.created[c]).by_known

\* C11 amended: if an entry has parent_pid = q then the entry was created
\* by a fork line of pid q that returned the entry's pid; q itself need
\* not have an entry.
C11_ParentForkedTheEntry ==
    \A c \in DOMAIN processes :
        IsSome(processes[c].parent_pid)
            => /\ IsSome(hist.created[c])
               /\ Unwrap(hist.created[c]).by = Unwrap(processes[c].parent_pid)

\* an entry whose parent, another pid, has no entry
C11_Witness ==
    \E c \in DOMAIN processes :
        /\ IsSome(processes[c].parent_pid)
        /\ Unwrap(processes[c].parent_pid) # c
        /\ Unwrap(processes[c].parent_pid) \notin DOMAIN processes
        /\ hist.created[c] # None

\* The walk along parent_pid links from pid comes back to a pid it has
\* visited: it is still on an entry with a parent after as many steps as
\* there are entries.
RECURSIVE ParentWalkRevisits(_, _, _)
ParentWalkRevisits(procs, pid, fuel) ==
    IF pid \notin DOMAIN procs \/ procs[pid].parent_pid = None
    THEN FALSE
    ELSE IF fuel = 0
    THEN TRUE
    ELSE ParentWalkRevisits(procs, Unwrap(procs[pid].parent_pid), fuel - 1)

\* C12: after any sequence of lines, following parent_pid links from any
\* pid never revisits a pid: the parent relation is acyclic.
C12_ParentLinksAcyclic ==
    \A p \in DOMAIN processes :
        ~ParentWalkRevisits(processes, p, Cardinality(DOMAIN processes))

\* C13: in every reachable analyzer state analyze returns for every line:
\* the owner walk of find_owner_pid ends.
C13_AnalyzeReturns == last.result # "Hang" /\ pc # "hung"

\* C14: when analyze returns an error for a line the process map is what
\* it was before the call, and the analyzer goes on with the next line.
C14_ErrorLeavesMapAlone ==
    [][last'.result = "Err" => (processes' = processes /\ pc' = "emit")]_vars

\* an error on a line of a pid without entry, while the map has entries
C14_Witness ==
    /\ last.result = "Err"
    /\ pc = "emit"
    /\ processes # <<>>
    /\ \E p \in Pids : p \notin DOMAIN processes

\* the lines of the input so far that the scanner or the analyzer rejects
FailingLines ==
    (line_index - Len(arrived))
        + Cardinality({i \in 1..Len(arrived) : ~arrived[i].ok})

\* A step that releases a line from the window hands the sink exactly the
\* event of that line, or nothing when analyze rejects the line, and the
\* loop goes on.
ReleasedLineStep ==
    emitted' # emitted
        => LET released == emitted'[Len(emitted')]
           IN  /\ pc' \in {"read", "evict", "drain"}
               /\ released.ok
                      => /\ last'.result = "Ok"
                         /\ EventAfter.timestamp = released.timestamp
                         /\ nevents' = nevents + 1
               /\ ~released.ok
                      => /\ last'.result = "Err"
                         /\ nevents' = nevents
                         /\ perfetto' = perfetto

\* C15: a line that fails in the scanner or in the analyzer produces no
\* event at the sink and does not abort the run; every other line is
\* still delivered, and the sink receives the delivered lines in the order
\* in which the window released them.
C15_FailingLinesSkipped ==
    /\ [][ReleasedLineStep]_vars
    /\ []((pc = "done" /\ FailingLines > 0)
            => /\ \A i \in 1..Len(arrived) :
                      arrived[i].ok
                          => Cardinality({j \in 1..Len(emitted) :
                                 emitted[j].line_index
                                     = arrived[i].line_index}) = 1
               /\ nevents
                      = Cardinality({i \in 1..Len(arrived) : arrived[i].ok}))

\* the spans of pid that have not ended
LiveSpans(o, pid) ==
    {i \in 1..Len(o.spans) : o.spans[i].pid = pid /\ o.spans[i].end = None}

\* An Exec event has just been handed to the remote-span sink for a pid
\* that had a live span.
ReExecDelivered ==
    /\ nevents' = nevents + 1
    /\ last'.result = "Ok"
    /\ EventAfter.kind.tag = "ExecProcess"
    /\ EventAfter.pid \in DOMAIN otel.process_spans

\* The prior span is tagged and ended at the adjusted timestamp of the
\* event and the new span is the pid's only live span.
PriorSpanEnded ==
    LET pid == EventAfter.pid
        prior == otel.process_spans[pid]
        new == otel'.process_spans[pid]
    IN  /\ new # prior
        /\ otel'.spans[prior].re_exec
        /\ otel'.spans[prior].end
               = Some(adjust_timestamp(otel', EventAfter.timestamp))
        /\ LiveSpans(otel', pid) = {new}

\* C16 as claimed: on an Exec event for a pid with a live span the prior
\* span is tagged re_exec and ended at the event's adjusted timestamp, the
\* new span becomes the pid's only live span, and both spans have the same
\* parent.
C16_ReExecSiblingSpans ==
    [][ReExecDelivered
          => /\ PriorSpanEnded
             /\ otel'.spans[otel'.process_spans[EventAfter.pid]].parent
                    = otel'.spans[otel.process_spans[EventAfter.pid]].parent]_vars

\* C16 amended: the prior span is tagged re_exec and ended at the event's
\* adjusted timestamp and the new span becomes the pid's only live span;
\* the new span's parent is the owner's live span at that moment, else the
\* root span, so the two spans are siblings under the root for a pid
\* without owner (scenario 3) but need not be siblings otherwise.
C16_ReExecEndsPriorSpan ==
    [][ReExecDelivered
          => LET e == EventAfter
                 new == otel'.spans[otel'.process_spans[e.pid]]
                 prior == otel'.spans[otel.process_spans[e.pid]]
             IN  /\ PriorSpanEnded
                 /\ new.parent
                        = IF IsSome(e.owner_pid)
                             /\ Unwrap(e.owner_pid) \in DOMAIN otel.process_spans
                          THEN Some(otel.process_spans[Unwrap(e.owner_pid)])
                          ELSE None
                 /\ e.owner_pid = None
                        => (new.parent = None /\ prior.parent = None)]_vars

\* a re-exec has just split the span of a pid without owner: two sibling
\* spans under the root, the first ended where the second starts
C16_Witness ==
    /\ last.result = "Ok"
    /\ Event.kind.tag = "ExecProcess"
    /\ Event.kind.re_exec
    /\ Event.owner_pid = None
    /\ Event.pid \in DOMAIN otel.process_spans
    /\ \E prior \in 1..Len(otel.spans) :
           LET new == otel.process_spans[Event.pid]
           IN  /\ prior # new
               /\ otel.spans[prior].pid = Event.pid
               /\ otel.spans[prior].re_exec
               /\ otel.spans[prior].start # otel.spans[new].start
               /\ otel.spans[prior].end = Some(otel.spans[new].start)
               /\ otel.spans[prior].parent = None
               /\ otel.spans[new].parent = None

\* C17: a Stop event for a pid with a live span removes that span and ends
\* it at the event's timestamp; Exited with code c sets exit_code = c and
\* exit_ok = (c = 0); Killed by signal s sets exit_ok = false and
\* exit_signal = s.
C17_StopEndsSpanWithAttributes ==
    [][(/\ nevents' = nevents + 1
        /\ last'.result = "Ok"
        /\ EventAfter.kind.tag = "StopProcess"
        /\ EventAfter.pid \in DOMAIN otel.process_spans)
          => LET e == EventAfter
                 stopped == e.kind.stopped
                 span == otel'.spans[otel.process_spans[e.pid]]
             IN  /\ e.pid \notin DOMAIN otel'.process_spans
                 /\ LiveSpans(otel', e.pid) = {}
                 /\ span.end = Some(adjust_timestamp(otel', e.timestamp))
                 /\ (stopped.reason = "Exited" /\ IsSome(stopped.code))
                        => /\ span.exit_code = stopped.code
                           /\ span.exit_ok = Some(Unwrap(stopped.code) = 0)
                 /\ stopped.reason = "Killed"
                        => /\ span.exit_ok = Some(FALSE)
                           /\ span.exit_signal = stopped.signal
                           /\ IsSome(stopped.signal)]_vars

\* an exit with code 1 has just ended the span of its pid
C17_Witness ==
    /\ last.result = "Ok"
    /\ Event.kind.tag = "StopProcess"
    /\ Event.kind.did_exec
    /\ Event.kind.stopped.code = Some(1)
    /\ Event.pid \notin DOMAIN otel.process_spans
    /\ \E i \in 1..Len(otel.spans) :
           /\ otel.spans[i].pid = Event.pid
           /\ IsSome(otel.spans[i].end)
           /\ otel.spans[i].exit_code = Some(1)
           /\ otel.spans[i].exit_ok = Some(FALSE)

\* C18: in record mode with a pipe-fed sink, once the tracer could not be
\* started the run ends with a fatal error: the main thread does not stay
\* blocked on the named pipe for ever.
C18_TracerStartFailureIsFatal ==
    (PipeFed(rec.args) /\ rec.tracer = "start_failed") ~> (rec.exit = "err")

\* C19: the FIFO exists when the tracer thread is spawned, and however
\* record is left after the FIFO was created (Ok, Err or a panic), the FIFO
\* path has been removed.
C19_FifoCreatedThenRemoved ==
    /\ [][(PipeFed(rec.args) /\ rec.tracer = "unspawned"
               /\ rec'.tracer # "unspawned")
             => (rec.fifo = "exists" /\ rec'.fifo = "exists")]_vars
    /\ []((rec.exit # "none" /\ rec.fifo # "absent")
             => rec.fifo = "removed")

C19_Witness ==
    /\ rec.exit = "panic"
    /\ rec.tracer # "unspawned"
    /\ rec.fifo = "removed"

\* the longest run of at most three octal digits at the start of the body
OctalRunLength(body) ==
    Cardinality({n \in 1..Len(body) :
                    n <= 3 /\ \A i \in 1..n : body[i] \in OctalDigits})

RECURSIVE OctalValue(_)
OctalValue(run) ==
    IF run = <<>> THEN 0
    ELSE 8 * OctalValue(SubSeq(run, 1, Len(run) - 1))
             + (ByteOf[run[Len(run)]] - ByteOf["0"])

\* a body that starts with an octal digit and has no second escape
OctalEscapeParsed ==
    /\ scan.at = "done"
    /\ scan.body[1] \in OctalDigits
    /\ \A i \in 1..Len(scan.body) : scan.body[i] # "\\"

\* the string is the byte of the run's octal value, then the characters
\* after the run as they stand
OctalByteThenLiteral ==
    LET n == OctalRunLength(scan.body)
        r == Unwrap(scan.returned)
    IN  /\ r.ok
        /\ r.bytes = <<OctalValue(SubSeq(scan.body, 1, n))>>
                         \o Bytes(SubSeq(scan.body, n + 1, Len(scan.body)))

\* C20: for every escape of a backslash and octal digits the parser takes
\* the longest run of one to three octal digits and yields the one byte of
\* their octal value; what follows the run is kept as a literal.
C20_OctalEscapeByte == OctalEscapeParsed => OctalByteThenLiteral

\* C20, amended: so it is when the octal value of the run is at most 0o377;
\* a run of greater value (three digits, the first 4..7) is rejected
\* with "invalid octal escape in string".
C20_OctalEscapeByteInRange ==
    OctalEscapeParsed =>
        IF OctalValue(SubSeq(scan.body, 1, OctalRunLength(scan.body)))
               <= U8_MAX
        THEN OctalByteThenLiteral
        ELSE /\ ~Unwrap(scan.returned).ok
             /\ Unwrap(scan.returned).message
                    = "invalid octal escape in string"

\* the text "\178": the byte 0x0F, then '8'
C20_Witness ==
    /\ OctalEscapeParsed
    /\ scan.body = <<"1", "7", "8">>
    /\ Unwrap(scan.returned).ok
    /\ Unwrap(scan.returned).bytes = <<15, 56>>

\* the text after the opening `<` of the annotation
AnnotationText == SubSeq(scan.input, 3, Len(scan.input))

\* The index in `text` of the first `>` at depth 0 that no `-` comes right
\* before, 0 if there is none.  A backslash and its escape are one unit of
\* the content: no delimiter, and no `-`.
RECURSIVE ClosingIndex(_, _, _, _)
ClosingIndex(text, i, depth, after_dash) ==
    IF i > Len(text) THEN 0
    ELSE IF text[i] = "\\"
    THEN LET e == parse_string_escape_sequence(SubSeq(text, i + 1, Len(text)))
         IN  IF e.ok
             THEN ClosingIndex(text, Len(text) - Len(e.rest) + 1, depth,
                               FALSE)
             ELSE 0
    ELSE IF text[i] = ">" /\ ~after_dash
    THEN IF depth = 0 THEN i
         ELSE ClosingIndex(text, i + 1, depth - 1, FALSE)
    ELSE ClosingIndex(text, i + 1,
                      IF text[i] = "<" THEN depth + 1 ELSE depth,
                      text[i] = "-")

\* the bytes of a content: the characters as they stand, an escape as its
\* byte
RECURSIVE ContentBytes(_)
ContentBytes(text) ==
    IF text = <<>> THEN <<>>
    ELSE IF text[1] = "\\"
    THEN LET e == parse_string_escape_sequence(Tail(text))
         IN  IF e.ok THEN <<e.byte>> \o ContentBytes(e.rest) ELSE <<>>
    ELSE <<ByteOf[text[1]]>> \o ContentBytes(Tail(text))

AnnotationClosed ==
    /\ scan.at = "done"
    /\ ClosingIndex(AnnotationText, 1, 0, FALSE) > 0

\* C21: the annotation ends at the first `>` at depth 0 that is not
\* immediately preceded by `-`, inner `<` and `>` keeping the depth; the
\* value is Annotated(x, content), and a `(deleted)` right after the
\* closing `>` sets deleted.
C21_AnnotationNesting ==
    AnnotationClosed =>
        LET end == ClosingIndex(AnnotationText, 1, 0, FALSE)
            r == Unwrap(scan.returned)
        IN  /\ r.ok
            /\ r.tag = "Annotated"
            /\ r.value = [tag |-> "Expression", bytes |-> <<ByteOf["x"]>>]
            /\ r.annotation = ContentBytes(SubSeq(AnnotationText, 1, end - 1))
            /\ r.deleted = StartsWith(SubSeq(AnnotationText, end + 1,
                                             Len(AnnotationText)), Deleted)

\* the line's rightmost ` = ` is the one in front of RESULT
ResultFollowsLastEquals ==
    LET before == scan.args \o <<")">> \o Spaces(scan.spaces)
                      \o <<"=", " ">>
        at == Occurrences(before \o scan.result, <<" ", "=", " ">>)
    IN  \A i \in at : i + 2 <= Len(before)

\* RESULT does not itself close the line with a ` <...>`
NoDurationBlock ==
    LET region == scan.args \o <<")">> \o Spaces(scan.spaces)
                      \o <<"=", " ">> \o scan.result
    IN  ~(/\ region[Len(region)] = ">"
          /\ Occurrences(SubSeq(region, 1, Len(region) - 1), <<" ", "<">>)
                 # {})

\* C22: a line `pid timestamp name(ARGS) = RESULT <D>` scans to a Syscall
\* of that pid and timestamp, with the name before the first `(`, ARGS,
\* the trimmed RESULT after the rightmost ` = ` and the duration D; a
\* syscall line without the closing ` <D>` is rejected.
C22_SyscallLineSplit ==
    scan.at = "done" =>
        LET r == Unwrap(scan.returned)
        IN  IF scan.duration = <<>>
            THEN NoDurationBlock =>
                     /\ ~r.ok
                     /\ r.message = "expected duration at end of syscall"
            ELSE ResultFollowsLastEquals =>
                     /\ r.ok
                     /\ r.pid = 7
                     /\ r.timestamp = Unwrap(parse_duration(scan.timestamp))
                     /\ r.event.tag = "Syscall"
                     /\ r.event.name = <<"f">>
                     /\ r.event.args_string = scan.args
                     /\ r.event.result_string = Trim(scan.result)
                     /\ r.event.duration
                            = Unwrap(parse_duration(scan.duration))

\* ARGS is ` = `, two spaces stand before the `=`, the microseconds count
C22_Witness ==
    /\ scan.at = "done"
    /\ scan.args = <<" ", "=", " ">>
    /\ scan.spaces = 2
    /\ scan.duration = <<"1", ".", "5">>
    /\ ResultFollowsLastEquals
    /\ Unwrap(scan.returned).ok
    /\ Unwrap(scan.returned).event.args_string = scan.args
    /\ Unwrap(scan.returned).event.duration
           = [seconds |-> 1, nanoseconds |-> 500000000]

\* the result text is decimal digits alone: a signed integer >= 0
NonNegativeResult(result_string) ==
    /\ result_string # <<>>
    /\ \A i \in 1..Len(result_string) : result_string[i] \in {"0", "1", "2", "3"}

\* C23: a fork, vfork, clone or clone3 line yields a Fork event and inserts
\* a child entry only when its result is a signed integer >= 0; with any
\* other result the event kind is Log and the process map is unchanged.
C23_ForkResultCheck ==
    (scan.at = "analyzed" /\ scan.name \in ForkNames
        /\ ~NonNegativeResult(scan.result_string)) =>
        /\ last.result = "Ok"
        /\ Unwrap(last.event).kind.tag = "Log"
        /\ processes = scan.before

\* C24: once a pid has an entry, no line changes the entry's parent_pid or
\* owner_pid, and no entry leaves the process map.
C24_OwnerAndParentFixed ==
    [][\A p \in DOMAIN processes :
           /\ p \in DOMAIN processes'
           /\ processes'[p].parent_pid = processes[p].parent_pid
           /\ processes'[p].owner_pid = processes[p].owner_pid]_vars

\* pid p was created by a fork of one pid, a later fork of another pid
\* returned p again, and p has stopped since: p still has the first parent
C24_Witness ==
    \E p \in DOMAIN processes :
        /\ IsSome(hist.created[p])
        /\ IsSome(hist.forked_by[p])
        /\ Unwrap(hist.forked_by[p]).by # Unwrap(hist.created[p]).by
        /\ hist.lifecycle[p] = "stop"
        /\ processes[p].status = "Stopped"
        /\ processes[p].parent_pid = Some(Unwrap(hist.created[p]).by)

\* `path` follows parent links through entries that are not Execed
IsChain(procs, path) ==
    \A i \in 1..(Len(path) - 1) :
        /\ path[i] \in DOMAIN procs
        /\ procs[path[i]].status # "Execed"
        /\ procs[path[i]].parent_pid = Some(path[i + 1])

\* `owner` is the first Execed pid on the chain q, parent(q), ..., or none
\* where the chain ends at an unknown pid or an entry without parent
FirstExecedOnChain(procs, q, owner) ==
    \E n \in 1..(MaxOwnerPid + 1) :
        \E path \in [1..n -> OwnerPids] :
            /\ path[1] = q
            /\ IsChain(procs, path)
            /\ LET end == path[n]
               IN  IF IsSome(owner)
                   THEN /\ end \in DOMAIN procs
                        /\ procs[end].status = "Execed"
                        /\ owner = Some(end)
                   ELSE \/ end \notin DOMAIN procs
                        \/ /\ procs[end].status # "Execed"
                           /\ procs[end].parent_pid = None

\* this step is a fork by pid q that creates the entry of pid c
ForkCreates(q, c) ==
    /\ c \notin DOMAIN processes
    /\ c \in DOMAIN processes'
    /\ last'.result = "Ok"
    /\ Unwrap(last'.event).kind.tag = "ForkProcess"
    /\ Unwrap(last'.event).pid = q

\* C25: the owner_pid of a child entry created by a fork of pid q is the
\* first Execed pid on the chain q, parent(q), parent(parent(q)), ..., q
\* included and Forked and Stopped entries walked through; it is none when
\* the chain first ends at an unknown pid or an entry without parent.
C25_OwnerValueAtFork ==
    [][\A q, c \in OwnerPids :
           ForkCreates(q, c) =>
               FirstExecedOnChain(processes, q,
                                  processes'[c].owner_pid)]_vars

\* pid 3, forked by the Stopped pid 2, is owned by pid 1, the Execed
\* parent of pid 2
C25_Witness ==
    /\ scan.at = "analyzed"
    /\ scan.name = "clone"
    /\ 3 \notin DOMAIN scan.before
    /\ 3 \in DOMAIN processes
    /\ 2 \in DOMAIN processes
    /\ processes[2].status = "Stopped"
    /\ processes[2].parent_pid = Some(1)
    /\ processes[3].parent_pid = Some(2)
    /\ processes[3].owner_pid = Some(1)

\* An Exec event has just been handed to the remote-span sink.
ExecDelivered ==
    /\ nevents' = nevents + 1
    /\ last'.result = "Ok"
    /\ EventAfter.kind.tag = "ExecProcess"

\* the span the Exec event started: the one the tracer was asked for last
NewSpan == otel'.spans[Len(otel'.spans)]

\* C26: the span started for an Exec event of pid p has as parent the
\* live span of p's owner_pid if the owner has a live span at that moment,
\* and the root span otherwise (no owner, or the owner's span has ended);
\* it is never the child of p's own previous span.
C26_SpanParentChoice ==
    [][ExecDelivered
          => LET e == EventAfter
                 owner_live == IF IsSome(e.owner_pid)
                               THEN LiveSpans(otel, Unwrap(e.owner_pid))
                               ELSE {}
             IN  /\ Len(otel'.spans) = Len(otel.spans) + 1
                 /\ NewSpan.pid = e.pid
                 /\ otel'.process_spans[e.pid] = Len(otel'.spans)
                 /\ IF owner_live # {}
                    THEN \E i \in owner_live : NewSpan.parent = Some(i)
                    ELSE /\ NewSpan.parent = None
                         /\ IsSome(otel'.root_span)
                 /\ \A i \in 1..Len(otel.spans) :
                        otel.spans[i].pid = e.pid
                            => NewSpan.parent # Some(i)]_vars

\* pid 2 has execed twice while its owner, pid 1, has a live span: both
\* spans of pid 2 are children of the span of pid 1
C26_Witness ==
    /\ last.result = "Ok"
    /\ Event.kind.tag = "ExecProcess"
    /\ Event.kind.re_exec
    /\ Event.pid = 2
    /\ Event.owner_pid = Some(1)
    /\ LiveSpans(otel, 1) # {}
    /\ \E prior \in 1..Len(otel.spans) :
           LET new == otel.spans[otel.process_spans[2]]
           IN  /\ otel.spans[prior].pid = 2
               /\ otel.spans[prior].re_exec
               /\ new.parent = Some(otel.process_spans[1])
               /\ otel.spans[prior].parent = new.parent

\* An event has just been handed to the remote-span sink.
EventDelivered ==
    /\ nevents' = nevents + 1
    /\ last'.result = "Ok"

\* C27: with a logger the sink emits one log record per event, correlated
\* to the first that exists of the pid's live span, the owner pid's live
\* span and the root span, live being taken after the event's own span
\* change; without a logger it emits none.
C27_LogCorrelationPriority ==
    [][EventDelivered
          => LET e == EventAfter
                 own == LiveSpans(otel', e.pid)
                 owner == IF IsSome(e.owner_pid)
                          THEN LiveSpans(otel', Unwrap(e.owner_pid))
                          ELSE {}
             IN  IF otel.logger
                 THEN /\ IsSome(otel'.log)
                      /\ Unwrap(otel'.log).pid = e.pid
                      /\ IF own # {}
                         THEN \E i \in own :
                                  Unwrap(otel'.log).context = Some(i)
                         ELSE IF owner # {}
                         THEN \E i \in owner :
                                  Unwrap(otel'.log).context = Some(i)
                         ELSE /\ Unwrap(otel'.log).context = None
                              /\ IsSome(otel'.root_span)
                 ELSE otel'.log = None]_vars

\* pid 2, owned by pid 1, has execed while pid 1 has a live span: the
\* record of the Exec is correlated to the new span of pid 2
C27_Witness ==
    /\ last.result = "Ok"
    /\ otel.logger
    /\ Event.kind.tag = "ExecProcess"
    /\ Event.pid = 2
    /\ Event.owner_pid = Some(1)
    /\ LiveSpans(otel, 1) # {}
    /\ LiveSpans(otel, 2) = {Len(otel.spans)}
    /\ IsSome(otel.log)
    /\ Unwrap(otel.log).context = Some(Len(otel.spans))

\* B + (event_ts - first_event_ts) with a base B, event_ts without
Rewritten(o, event_ts) ==
    IF IsSome(o.relative_to)
    THEN Unwrap(o.relative_to) + (event_ts - Unwrap(o.first_event_timestamp))
    ELSE event_ts

\* C28: first_event_timestamp is set by the first event handed to the
\* remote-span sink and never changes afterwards; every span start, span
\* end and log timestamp is B + (event_ts - first_event_ts) with a
\* relative_to base B, and event_ts without one.
C28_TimestampRewriting ==
    [][/\ IsSome(otel.first_event_timestamp)
           => otel'.first_event_timestamp = otel.first_event_timestamp
       /\ EventDelivered
           => LET e == EventAfter
                  at == Rewritten(otel', e.timestamp)
              IN  /\ otel.first_event_timestamp = None
                      => otel'.first_event_timestamp = Some(e.timestamp)
                  /\ \A i \in 1..Len(otel'.spans) :
                         IF i > Len(otel.spans)
                         THEN otel'.spans[i].start = at
                         ELSE /\ otel'.spans[i].start = otel.spans[i].start
                              /\ otel'.spans[i].end # otel.spans[i].end
                                     => otel'.spans[i].end = Some(at)
                  /\ IsSome(otel'.log) => Unwrap(otel'.log).timestamp = at
                  /\ (otel.root_span = None /\ IsSome(otel'.root_span))
                         => Unwrap(otel'.root_span).start
                                = Rewritten(otel',
                                      Unwrap(otel'.first_event_timestamp))]_vars

\* base 10, first event at 2, then an Exec at 1 for a pid with a live
\* span: the previous span ends and the new one starts at 9
C28_Witness ==
    /\ last.result = "Ok"
    /\ otel.relative_to = Some(10)
    /\ otel.first_event_timestamp = Some(2)
    /\ Event.timestamp = 1
    /\ Event.kind.tag = "ExecProcess"
    /\ Len(otel.spans) >= 2
    /\ otel.spans[Len(otel.spans)].start = 9
    /\ \E i \in 1..(Len(otel.spans) - 1) :
           otel.spans[i].pid = Event.pid /\ otel.spans[i].end = Some(9)
    /\ otel.logger => Unwrap(otel.log).timestamp = 9

\* C29: the remote-span sink creates the root span at most once, starting
\* at the adjusted timestamp of the first event whichever event asks for
\* it, and on shutdown ends it at the adjusted timestamp of the last
\* event handed to the sink; a sink that saw no event has no root span to
\* end.
C29_RootSpanLifecycle ==
    /\ [][/\ IsSome(otel.root_span)
              => /\ IsSome(otel'.root_span)
                 /\ Unwrap(otel'.root_span).start
                        = Unwrap(otel.root_span).start
          /\ (otel.root_span = None /\ IsSome(otel'.root_span))
              => /\ EventDelivered
                 /\ Unwrap(otel'.root_span).end = None
                 /\ Unwrap(otel'.root_span).start
                        = Rewritten(otel',
                              Unwrap(otel'.first_event_timestamp))
          /\ (~otel'.dropped /\ IsSome(otel'.root_span))
              => Unwrap(otel'.root_span).end = None]_vars
    /\ [](/\ otel.last_event_timestamp = None => otel.root_span = None
          /\ (otel.dropped /\ IsSome(otel.root_span))
                 => Unwrap(otel.root_span).end
                        = Some(Rewritten(otel,
                                   Unwrap(otel.last_event_timestamp))))

\* base 10, no logger: the first event, at 1, left the root span unasked
\* for, an Exec at 2 created it, and the sink was dropped: the root span
\* runs from 10 to 11, the span of the Exec starts at 11
C29_Witness ==
    /\ otel.dropped
    /\ ~otel.logger
    /\ otel.relative_to = Some(10)
    /\ otel.first_event_timestamp = Some(1)
    /\ otel.last_event_timestamp = Some(2)
    /\ IsSome(otel.root_span)
    /\ Unwrap(otel.root_span).start = 10
    /\ Unwrap(otel.root_span).end = Some(11)
    /\ Len(otel.spans) >= 1
    /\ \A i \in 1..Len(otel.spans) : otel.spans[i].start = 11

\* the pids whose latest Exec has not been followed by a Stop: the slice
\* the flame-chart sink began for them is open
OpenSlicePids ==
    {p \in DOMAIN processes : processes[p].status = "Execed"}

\* C30: a pid gets an entry in the pid-to-track-uuid map only when an Exec
\* event for that pid is processed; Fork, Log and Stop events of a pid
\* without open slice create none, so the keys of the map are always the
\* pids with an open slice.
C30_TrackAssignedOnExec ==
    /\ [][\A p \in DOMAIN perfetto'.track_uuids_by_pid :
              p \notin DOMAIN perfetto.track_uuids_by_pid
                  => /\ EventDelivered
                     /\ EventAfter.pid = p
                     /\ EventAfter.kind.tag = "ExecProcess"]_vars
    /\ [](DOMAIN perfetto.track_uuids_by_pid = OpenSlicePids)

\* the packets of the last call that belong to process tracks: what is
\* written without the root track's descriptor and the log packets
ProcessPackets(p) ==
    SelectSeq(p.written,
              LAMBDA k : /\ k.type \in {"SliceEnd", "TrackDescriptor",
                                        "SliceBegin"}
                         /\ k.name # Some("Root"))

\* what the sink wrote for the Exec event just delivered, given whether the
\* redrawn uuid has to differ from the previous one
ReExecWritten(must_differ) ==
    LET pid == EventAfter.pid
        ts == Some(EventAfter.timestamp)
        w == ProcessPackets(perfetto')
    IN  IF EventAfter.kind.re_exec
        THEN /\ pid \in DOMAIN perfetto.track_uuids_by_pid
             /\ Len(w) = 3
             /\ w[1].type = "SliceEnd"
             /\ w[1].uuid = Some(perfetto.track_uuids_by_pid[pid])
             /\ w[2].type = "TrackDescriptor"
             /\ w[3].type = "SliceBegin"
             /\ w[2].uuid = w[3].uuid
             /\ must_differ => w[2].uuid # w[1].uuid
             /\ \A i \in 1..3 : w[i].timestamp = ts
             /\ pid \in DOMAIN perfetto'.track_uuids_by_pid
             /\ Some(perfetto'.track_uuids_by_pid[pid]) = w[2].uuid
        ELSE \A i \in 1..Len(w) : w[i].type # "SliceEnd"

\* C31: for an Exec event with re_exec = true the flame-chart sink writes,
\* in this order and all at the event timestamp, a slice-end on the pid's
\* previous track uuid, then a track descriptor and a slice-begin on a
\* fresh track uuid different from the previous one, and the map then
\* holds the fresh uuid; for re_exec = false it writes no slice-end.
C31_ReExecOrdering ==
    [][ExecDelivered => ReExecWritten(TRUE)]_vars

\* C31 as the code has it: the same packets in the same order, the track
\* descriptor and the slice-begin being on the uuid rand::random() returned
\* in the re_exec branch, which nothing compares with the previous one;
\* the map then holds the drawn uuid.
C31_ReExecOrderingDrawn ==
    [][ExecDelivered => ReExecWritten(FALSE)]_vars

\* a re-exec of pid 1 at 2 was written: slice-end on track 1, then the
\* descriptor and the slice-begin of track 2, which the map now holds
C31_Witness ==
    /\ last.result = "Ok"
    /\ Event.kind.tag = "ExecProcess"
    /\ Event.kind.re_exec
    /\ Event.pid = 1
    /\ Event.timestamp = 2
    /\ LET w == ProcessPackets(perfetto)
       IN  /\ Len(w) = 3
           /\ w[1] = SliceEnd(1, 2)
           /\ w[2].type = "TrackDescriptor" /\ w[2].uuid = Some(2)
           /\ w[3].type = "SliceBegin" /\ w[3].uuid = Some(2)
    /\ perfetto.track_uuids_by_pid[1] = 2

\* the log packets of the last call
LogPackets(p) == SelectSeq(p.written, LAMBDA k : k.type = "Instant")

\* C32: with logs enabled every event of any kind produces exactly one
\* instant log packet on the root track whose interned body id is the
\* number of events processed so far (1, 2, 3, ...); with logs disabled no
\* log packet and no root track descriptor is ever written and track
\* descriptors have no parent.
C32_LogPackets ==
    [][EventDelivered =>
          LET w == perfetto'.written
              logs == LogPackets(perfetto')
          IN  IF perfetto.logs
              THEN /\ Len(logs) = 1
                   /\ IsSome(perfetto.root_track_uuid)
                   /\ logs[1].uuid = perfetto.root_track_uuid
                   /\ logs[1].iid = Some(nevents')
                   /\ logs[1].timestamp = Some(EventAfter.timestamp)
              ELSE /\ Len(logs) = 0
                   /\ \A i \in 1..Len(w) :
                          /\ w[i].name # Some("Root")
                          /\ w[i].type = "TrackDescriptor"
                                 => w[i].parent_uuid = None]_vars

\* the third event, the Stop of a pid, was written with logs enabled: its
\* log packet has the interned body id 3
C32_Witness ==
    /\ perfetto.logs
    /\ nevents = 3
    /\ last.result = "Ok"
    /\ Event.kind.tag = "StopProcess"
    /\ Len(LogPackets(perfetto)) = 1
    /\ LogPackets(perfetto)[1].iid = Some(3)
    /\ LogPackets(perfetto)[1].uuid = perfetto.root_track_uuid

\* the timestamps under which a line is buffered
Buffered == DOMAIN queued_lines
BufferedAfter == DOMAIN queued_lines'

DrainStep == pc = "drain" /\ emitted' # emitted

\* the sink is dropped, the providers are shut down or the thread is
\* joined, or the function has returned
ShuttingDown == pc \in {"shutdown", "join", "done"}

\* the lines the drain handed over: the buffer held at most WINDOW_SIZE
DrainedLines ==
    SubSeq(emitted,
           IF Len(emitted) > WINDOW_SIZE
           THEN Len(emitted) - WINDOW_SIZE + 1 ELSE 1,
           Len(emitted))

\* C34: at end of input every line still buffered in the window is analysed
\* and its event delivered, in ascending timestamp order, to every enabled
\* sink before the remote-span sink is dropped (root span ended), before
\* the exporter providers are shut down and before the tracer thread is
\* joined: each step of the drain takes the least timestamp buffered and
\* hands its event to every sink, the drop happens only on an empty
\* buffer, and nothing reaches a sink afterwards.
C34_DrainBeforeShutdown ==
    /\ [][DrainStep
             => /\ \E k \in Buffered :
                       /\ \A j \in Buffered : k <= j
                       /\ BufferedAfter = Buffered \ {k}
                       /\ emitted' = Append(emitted, Stamp(queued_lines[k]))
                       /\ last'.result = IF queued_lines[k].line.parse_ok
                                         THEN "Ok" ELSE "Err"
                /\ IF last'.result = "Ok"
                   THEN /\ sinks.otel
                              => otel' = OtelOutputEvent(otel, EventAfter)
                        /\ sinks.perfetto
                              => \E r1 \in Uuids, r2 \in Uuids :
                                     perfetto' = PerfettoOutputEvent(
                                                     perfetto, EventAfter,
                                                     r1, r2)
                   ELSE otel' = otel /\ perfetto' = perfetto]_vars
    /\ [][(otel' # otel /\ otel'.dropped)
             => pc = "drain" /\ Buffered = {} /\ pc' = "shutdown"]_vars
    /\ [][ShuttingDown
             => /\ otel' = otel /\ perfetto' = perfetto
                /\ emitted' = emitted
                /\ pc' \in {"join", "done"}]_vars
    /\ [](ShuttingDown => /\ Buffered = {}
                          /\ sinks.otel => otel.dropped
                          /\ NonDecreasing(DrainedLines))

\* record has returned with both sinks: four lines arrived out of order,
\* two were evicted and two drained, three events reached the sinks, and
\* the root span was ended at the last of them
C34_Witness ==
    /\ pc = "done"
    /\ sinks.otel /\ sinks.perfetto
    /\ Len(arrived) = 4
    /\ Len(emitted) = 4
    /\ ~NonDecreasing(arrived)
    /\ NonDecreasing(emitted)
    /\ nevents = 3
    /\ otel.dropped
    /\ IsSome(otel.root_span)
    /\ Unwrap(otel.root_span).end = Some(emitted[4].timestamp)
    /\ last.result = "Ok"
    /\ Event.timestamp = emitted[4].timestamp

\* every separator of the list is the first one, `, ` or ` `
UniformSeparators ==
    \A i \in 1..Len(scan.separators) :
        /\ scan.separators[i] = scan.separators[1]
        /\ scan.separators[1] \in {<<",", " ">>, <<" ">>}

\* C35: in a bracketed list that is not a sparse array the separator
\* between the first and the second element fixes the mode (`, ` or ` `)
\* and every later separator must be the same one, otherwise the parse
\* fails; both modes and the lists of no and of one element yield Array
\* with the elements in order.
C35_ArraySeparatorMode ==
    scan.at = "done"
        => LET returned == Unwrap(scan.returned)
           IN  IF UniformSeparators
               THEN /\ returned.ok
                    /\ returned.rest = <<>>
                    /\ returned.value
                           = Array([i \in 1..Len(scan.items)
                                       |-> scan.items[i].value])
               ELSE ~returned.ok

\* `[1 [a, 1] 1 []]`: four items in space mode, the second a list in comma
\* mode, parsed to the Array of the four values
C35_Witness ==
    /\ scan.at = "done"
    /\ scan.input = <<"[", "1", " ", "[", "a", ",", " ", "1", "]", " ", "1",
                      " ", "[", "]", "]">>
    /\ Unwrap(scan.returned).ok
    /\ Unwrap(scan.returned).value
           = Array(<<Expression(<<"1">>),
                     Array(<<Expression(<<"a">>), Expression(<<"1">>)>>),
                     Expression(<<"1">>), Array(<<>>)>>)

\* the place of the first `=` of the text, 0 when it has none
FirstEquals(text) ==
    LET at == {i \in 1..Len(text) : text[i] = "="}
    IN  IF at = {} THEN 0 ELSE CHOOSE i \in at : \A j \in at : i <= j

\* the text starts with an identifier, spaces allowed around it, directly
\* followed by a single `=` and a right-hand side that is not empty
NamedFieldShape(text) ==
    LET i == FirstEquals(text)
    IN  /\ i > 1
        /\ is_ident(Trim(SubSeq(text, 1, i - 1)))
        /\ i < Len(text)
        /\ text[i + 1] # "="
        /\ TrimStart(SubSeq(text, i + 1, Len(text))) # <<>>

\* C36: a field slot is parsed as a named field exactly when it starts with
\* an identifier (optionally surrounded by spaces) directly followed by a
\* single `=` and a non-empty right-hand side; in every other case,
\* including an identifier followed by the operator `==`, the slot is
\* parsed as an anonymous field whose value is the whole slot.
C36_FieldNaming ==
    scan.at = "done"
        => LET returned == Unwrap(scan.returned)
               i == FirstEquals(scan.input)
           IN  IF NamedFieldShape(scan.input)
               THEN returned
                        = FieldOf(Some(Trim(SubSeq(scan.input, 1, i - 1))),
                                  ValueWithOperators(
                                      TrimStart(SubSeq(scan.input, i + 1,
                                                       Len(scan.input)))))
               ELSE returned = FieldOf(None, ValueWithOperators(scan.input))

\* the pids the Analyzer has as Execed
ExecedPids == {p \in DOMAIN processes : processes[p].status = "Execed"}

\* the spans an event tagged re_exec, ended and started
TaggedInStep ==
    {i \in 1..Len(otel.spans) : ~otel.spans[i].re_exec
                                 /\ otel'.spans[i].re_exec}
EndedInStep ==
    {i \in 1..Len(otel.spans) : otel.spans[i].end = None
                                 /\ otel'.spans[i].end # None}
StartedInStep == (1..Len(otel'.spans)) \ (1..Len(otel.spans))

\* C37: the remote-span sink, handed every event the Analyzer emits, holds
\* after each event a live span for pid p if and only if the Analyzer has
\* p as Execed; a span is tagged re_exec exactly on the events the
\* Analyzer reported with re_exec = true, and a span is ended only by a
\* Stop or a later Exec of its pid: Fork and Log events start and end none.
C37_SinkFollowsAnalyzer ==
    /\ [](/\ DOMAIN otel.process_spans = ExecedPids
          /\ \A p \in Pids : LiveSpans(otel, p)
                  = IF p \in ExecedPids THEN {otel.process_spans[p]}
                    ELSE {})
    /\ [][IF EventDelivered
          THEN /\ TaggedInStep # {}
                      <=> /\ EventAfter.kind.tag = "ExecProcess"
                          /\ EventAfter.kind.re_exec
               /\ \A i \in TaggedInStep \cup EndedInStep :
                      /\ otel.spans[i].pid = EventAfter.pid
                      /\ EventAfter.kind.tag \in {"ExecProcess",
                                                  "StopProcess"}
               /\ TaggedInStep \subseteq EndedInStep
               /\ StartedInStep # {}
                      <=> EventAfter.kind.tag = "ExecProcess"
               /\ Len(otel'.spans) >= Len(otel.spans)
          ELSE otel'.spans = otel.spans]_vars

\* pid 1 exec'd twice and a Log event of it followed: its first span is
\* tagged and ended, the second is live, and the Analyzer has it Execed
C37_Witness ==
    /\ last.result = "Ok"
    /\ Event.kind.tag = "Log"
    /\ Event.pid = 1
    /\ nevents = 3
    /\ Len(otel.spans) = 2
    /\ otel.spans[1].pid = 1 /\ otel.spans[1].re_exec
    /\ otel.spans[1].end # None
    /\ otel.spans[2].pid = 1 /\ ~otel.spans[2].re_exec
    /\ otel.spans[2].end = None
    /\ otel.process_spans[1] = 2
    /\ processes[1].status = "Execed"

\* the events the step's push_line pushed
PushedInStep ==
    SubSeq(scan'.pushed, Len(scan.pushed) + 1, Len(scan'.pushed))

\* the tags of events that belong to the line of the step
TagsOfLine(events, tags) ==
    /\ Len(events) = Len(tags)
    /\ \A i \in 1..Len(events) :
           /\ events[i].kind.tag = tags[i]
           /\ events[i].pid = EventAfter.pid
           /\ events[i].timestamp = EventAfter.timestamp

\* C38: fed the same lines, Analyzer and EventEmitter hold identical
\* per-pid (parent_pid, owner_pid, status) after every line, and the
\* emitter's queue yields, in push order, one event per line, except that a
\* re-exec yields StopProcess(ReExeced) immediately followed by
\* StartProcess with the same pid and timestamp, and the stop of a pid that
\* has not exec'd yields a Log.  A line both reject yields no event.
C38_AnalyzerAndEmitterAgree ==
    /\ [](scan.processes = processes)
    /\ [](scan.popped \o scan.events = scan.pushed)
    /\ [][line_index' # line_index
            => /\ scan'.result = last'.result
               /\ IF last'.result = "Ok"
                  THEN LET kind == EventAfter.kind
                           new == PushedInStep
                       IN  IF kind.tag = "ExecProcess"
                           THEN IF kind.re_exec
                                THEN /\ TagsOfLine(new, <<"StopProcess",
                                                         "StartProcess">>)
                                     /\ new[1].kind.stopped.reason
                                            = "ReExeced"
                                ELSE TagsOfLine(new, <<"StartProcess">>)
                           ELSE IF kind.tag = "StopProcess" /\ kind.did_exec
                           THEN /\ TagsOfLine(new, <<"StopProcess">>)
                                /\ new[1].kind.stopped = kind.stopped
                           ELSE TagsOfLine(new, <<"Log">>)
                  ELSE PushedInStep = <<>>]_vars

\* pid 1 exec'd, exec'd again and exited, and pid 2, which never exec'd,
\* exited: the queue got Start, Stop(ReExeced), Start, Stop, Log, of which
\* two were popped
C38_Witness ==
    /\ scan.at = "emitter"
    /\ line_index = 4
    /\ Len(scan.pushed) = 5
    /\ [i \in 1..5 |-> scan.pushed[i].kind.tag]
           = <<"StartProcess", "StopProcess", "StartProcess", "StopProcess",
               "Log">>
    /\ scan.pushed[2].kind.stopped.reason = "ReExeced"
    /\ scan.pushed[2].timestamp = scan.pushed[3].timestamp
    /\ scan.pushed[5].pid = 2
    /\ Len(scan.popped) = 2
    /\ DOMAIN processes = {1, 2}
    /\ processes[1].status = "Stopped" /\ processes[2].status = "Stopped"
    /\ scan.processes = processes

\* the step analyzed an exec line whose argument text parses
ExecLineAnalyzed ==
    /\ line_index' = line_index + 1
    /\ scan'.name \in {"execve", "execveat"}
    /\ scan'.args_ok

\* C39: every execve or execveat line whose argument text parses sets the
\* pid's status to Execed and emits an Exec event, whatever the result text
\* is, a failed call included, and creates the entry with no parent and no
\* owner when the pid was unknown.
C39_ExecIgnoresResult ==
    [][ExecLineAnalyzed
         => /\ last'.result = "Ok"
            /\ EventAfter.kind.tag = "ExecProcess"
            /\ EventAfter.pid = scan'.pid
            /\ processes'[scan'.pid].status = "Execed"
            /\ scan'.pid \notin DOMAIN processes
                   => processes'[scan'.pid]
                          = ProcessState(None, None, "Execed")
            /\ scan'.pid \in DOMAIN processes
                   => processes'[scan'.pid]
                          = [processes[scan'.pid] EXCEPT !.status = "Execed"]
            /\ \A p \in DOMAIN processes \ {scan'.pid} :
                   processes'[p] = processes[p]]_vars

\* the line of a failed execve of an unknown pid was analyzed
C39_Witness ==
    /\ scan.at = "exec"
    /\ scan.name = "execve"
    /\ scan.args_ok
    /\ scan.result_string = <<"-", "1", " ", "E", "N", "O", "E", "N", "T">>
    /\ scan.pid \notin DOMAIN scan.before
    /\ last.result = "Ok"
    /\ Event.kind.tag = "ExecProcess"
    /\ processes[scan.pid] = ProcessState(None, None, "Execed")

\* how many packets of a type the sink wrote on a track uuid
WrittenOn(type, uuid) ==
    Cardinality({i \in 1..Len(scan.written) :
                    /\ scan.written[i].type = type
                    /\ scan.written[i].uuid = Some(uuid)})

\* how many times rand::random() returned the uuid to output_event
Drawn(uuid) ==
    Cardinality({i \in 1..Len(scan.drawn) : scan.drawn[i] = uuid})

\* every slice-begin comes after a track descriptor of its uuid
DescriptorPrecedesBegin ==
    \A i \in 1..Len(scan.written) :
        scan.written[i].type = "SliceBegin"
            => \E j \in 1..(i - 1) :
                   /\ scan.written[j].type = "TrackDescriptor"
                   /\ scan.written[j].uuid = scan.written[i].uuid

\* after output_event returned, no packet is left in the sink's list
NothingPending == nevents > 0 => perfetto.packets = <<>>

\* C40: each track uuid the flame-chart sink writes receives at most one
\* slice-begin and at most one slice-end, its track descriptor precedes
\* its slice-begin, and after output_event returns the sink's pending
\* packet list is empty.
C40_OneSlicePerTrack ==
    /\ \A u \in Uuids :
           WrittenOn("SliceBegin", u) <= 1 /\ WrittenOn("SliceEnd", u) <= 1
    /\ DescriptorPrecedesBegin
    /\ NothingPending

\* C40 as the code has it: a track uuid receives at most one slice-begin
\* and at most one slice-end for each time it was drawn, the track
\* descriptor of a slice-begin is the packet written just before it, and
\* after output_event returns the sink's pending packet list is empty.
C40_OneSlicePerDraw ==
    /\ \A u \in Uuids :
           /\ WrittenOn("SliceBegin", u) <= Drawn(u)
           /\ WrittenOn("SliceEnd", u) <= Drawn(u)
    /\ \A i \in 1..Len(scan.written) :
           scan.written[i].type = "SliceBegin"
               => /\ i > 1
                  /\ scan.written[i - 1].type = "TrackDescriptor"
                  /\ scan.written[i - 1].uuid = scan.written[i].uuid
    /\ NothingPending

\* pid 1 exec'd, exec'd again on a second uuid and exited: each of the two
\* uuids got its descriptor, one slice-begin and one slice-end
C40_Witness ==
    /\ scan.at = "tracks"
    /\ nevents = 3
    /\ scan.drawn = <<1, 2>>
    /\ \A u \in {1, 2} :
           WrittenOn("SliceBegin", u) = 1 /\ WrittenOn("SliceEnd", u) = 1
    /\ 1 \notin DOMAIN perfetto.track_uuids_by_pid
    /\ perfetto.packets = <<>>

====
